---- MODULE Spec2Model ----
(***************************************************************************)
(* CZip: Huffman codec, compressed-container codec and directory archive   *)
(* codec, modelled from the C sources.                                     *)
(***************************************************************************)
EXTENDS Integers, Sequences, FiniteSets, TLC

(***************************************************************************)
(* Bounds of the model.                                                    *)
(***************************************************************************)
\* longest arbitrary mix of symbols in an input buffer
MaxLen == 3
\* longest run of one repeated symbol put in front of the mix
MaxRun == 8

(***************************************************************************)
(* Program constants.                                                      *)
(***************************************************************************)
\* sizeof(Node): enum (4) + padding (4) + long (8) + union (8)
SizeofNode == 24

\* Error_code values
SUCCESS == 0
MALLOC_ERROR == -1
FILE_READ_ERROR == -2
FILE_MAGIC_ERROR == -3
TREE_ERROR == -4
FILE_WRITE_ERROR == -5
NO_OVERWRITE == -8
SCANF_FAILED == -9
EMPTY_FILE == -14

\* errno values returned by run_compression
ENOMEM == 12
EIO == 5
ECANCELED == 125

\* a NULL pointer (distinct from the empty path ""); a pointer that is not NULL
\* is the path it points to, <<"heap", the bytes allocated>> or <<"mmap", the
\* offset in the mapped file>>
NULL == <<"NULL">>

\* the content of memory that malloc returned and nobody wrote
Indeterminate == 0 - 1

\* byte values that occur in input buffers
Alphabet == {65, 66, 200}

Byte == 0..255

(***************************************************************************)
(* Helpers on bits and sequences.                                          *)
(***************************************************************************)
RECURSIVE Pow2(_)
Pow2(k) == IF k = 0 THEN 1 ELSE 2 * Pow2(k - 1)

\* (b & (1 << k)) != 0
TestBit(b, k) == (b \div Pow2(k)) % 2 = 1

\* b | (1 << k)
SetBit(b, k) == IF TestBit(b, k) THEN b ELSE b + Pow2(k)

\* n copies of x
Rep(x, n) == [i \in 1..n |-> x]

RECURSIVE SeqsUpTo(_, _)
SeqsUpTo(S, n) ==
    IF n = 0 THEN {<<>>}
    ELSE LET shorter == SeqsUpTo(S, n - 1)
         IN  shorter \cup {Append(s, x) : s \in {t \in shorter : Len(t) = n - 1}, x \in S}

\* the input buffers of the model: a run of one symbol followed by a mix
Inputs == {Rep(a, r) \o s : a \in Alphabet, r \in 0..MaxRun, s \in SeqsUpTo(Alphabet, MaxLen)}

\* errno values and the mode of a created output directory
EEXIST == 17
ENOENT == 2
DIR_MODE == 511
MKDIR_ERROR == -12
DIRECTORY_ERROR == -13

\* the archiver before prepare_directory, and the restorer before
\* restore_directory
FsIdle == [tree |-> <<>>, order |-> "asc", fail |-> <<"none">>]

ArIdle ==
    [fd |-> 0 - 1, sep |-> FALSE, cwd |-> "start", dir_size |-> 0, data_len |-> 0,
     map |-> NULL, overflow |-> FALSE, records |-> <<>>, archive_size |-> 0,
     directory_size |-> 0, total_size |-> 0, env_failed |-> FALSE,
     back_failed |-> FALSE]

RsIdle ==
    [temp_data |-> NULL, offset |-> 0, items |-> 0, output_file |-> NULL,
     force |-> FALSE, no_preserve_perms |-> FALSE, start |-> "empty", past |-> FALSE,
     w |-> [out |-> <<>>, errno |-> 0, umask |-> 0, chmodded |-> {}, made |-> {}]]

\* run_compression before it calls write_compressed
WcIdle ==
    [called |-> FALSE, existed |-> FALSE, overwrite |-> FALSE, answer |-> "none",
     fails |-> "none", prompted |-> FALSE, opened |-> FALSE, ret |-> 0]

\* main before parse_arguments
CliIdle ==
    [argv |-> <<>>, i |-> 1,
     args |-> [compress_mode |-> FALSE, extract_mode |-> FALSE, force |-> FALSE,
               directory |-> FALSE, no_preserve_perms |-> FALSE,
               input_file |-> NULL, output_file |-> NULL],
     parse_result |-> 0, ran |-> "none", is_dir |-> FALSE, written |-> FALSE,
     env_failed |-> FALSE]

HELP_REQUESTED == 1
EISDIR == 21
EBADF == 9

(***************************************************************************)
(* State.                                                                  *)
(***************************************************************************)
VARIABLES
    pc,               \* position of the running call
    data,             \* the raw input buffer (original_data, data_len = Len(data))
    nodes,            \* Node array, indices 0..2*leaf_count-2
    leaf_count,
    tree,             \* locals of construct_tree: i, current_leaf, current_branch, last_branch
    root_node,        \* index of the root in nodes, or -1 for NULL
    cache,            \* symbol -> cached path (symbols with a NULL entry are absent)
    comp,             \* locals of compress: i, buffer, bit_count, total_bits, overflow
    compressed_file,  \* the Compressed_file structure
    dec,              \* locals of decompress: i, current_node, current_raw, buffer
    raw,              \* output buffer of decompress
    res,              \* return value of the call that ended last
    output_file,      \* the container file on disk: "absent", "old" or "container"
    image,            \* the bytes of the container file read_compressed is given
    wr,               \* the Compressed_file handed to write_compressed
    rc,               \* read_compressed: its locals and the Compressed_file it fills
    fs,               \* the directory tree to archive and the order readdir lists it in
    ar,               \* prepare_directory: its locals, the mapped temporary file
    rs,               \* restore_directory: its arguments and locals, the output tree
    cli,              \* main: argv, the Arguments parsed so far, what main has run
    wc                \* the last call of write_compressed by run_compression

vars == <<pc, data, nodes, leaf_count, tree, root_node, cache, comp,
          compressed_file, dec, raw, res, output_file, image, wr, rc, fs, ar, rs,
          cli, wc>>

\* the state the codec and decompress never touch
not_codec == <<image, wr, rc, fs, ar, rs, cli, wc>>

\* the state write_compressed and read_compressed never touch
not_container == <<data, nodes, leaf_count, tree, root_node, cache, comp,
                   compressed_file, dec, raw, output_file, fs, ar, rs, cli, wc>>

(***************************************************************************)
(* Nodes.                                                                  *)
(***************************************************************************)
\* a slot of the nodes array that was allocated and never written
NoNode == [type |-> "UNINIT", frequency |-> 0, data |-> 0, left |-> 0, right |-> 0]

construct_leaf(frequency, d) ==
    [type |-> "LEAF", frequency |-> frequency, data |-> d, left |-> 0, right |-> 0]

\* construct_branch with the two child indices exchanged
construct_branch_swapped(nds, left_index, right_index) ==
    [type |-> "BRANCH",
     frequency |-> nds[left_index].frequency + nds[right_index].frequency,
     data |-> 0, left |-> right_index, right |-> left_index]

\* construct_branch taking the frequency of the left child alone
construct_branch_left_frequency(nds, left_index, right_index) ==
    [type |-> "BRANCH", frequency |-> nds[left_index].frequency,
     data |-> 0, left |-> left_index, right |-> right_index]

construct_branch(nds, left_index, right_index) ==
    [type |-> "BRANCH",
     frequency |-> nds[left_index].frequency + nds[right_index].frequency,
     data |-> 0, left |-> left_index, right |-> right_index]

count_frequencies(d) ==
    [b \in Byte |-> Cardinality({i \in 1..Len(d) : d[i] = b})]

\* the leaves run_compression creates: one for each byte value with a non-zero
\* frequency, in ascending order of the byte value
Leaves(freq) ==
    LET present == {b \in Byte : freq[b] # 0}
        kth(k) == CHOOSE b \in present : Cardinality({c \in present : c < b}) = k - 1
    IN  [k \in 1..Cardinality(present) |-> construct_leaf(freq[kth(k)], kth(k))]

\* compare_nodes(a, b) as qsort sees it
compare_nodes(a, b) ==
    IF a.frequency < b.frequency THEN 0 - 1
    ELSE IF a.frequency > b.frequency THEN 1
    ELSE 0

\* the arrays qsort may leave: any permutation of the leaves that compare_nodes
\* accepts as sorted (qsort gives no order to elements that compare equal)
sort_nodes(leaves) ==
    LET n == Len(leaves)
    IN  {[i \in 0..(n - 1) |-> leaves[p[i + 1]]] :
            p \in {q \in [1..n -> 1..n] :
                     /\ \A a, b \in 1..n : a # b => q[a] # q[b]
                     /\ \A a \in 1..(n - 1) :
                          compare_nodes(leaves[q[a]], leaves[q[a + 1]]) <= 0}}

(***************************************************************************)
(* construct_tree: the two-cursor merge, one loop iteration per step.      *)
(***************************************************************************)
\* the condition with < in place of <=
TakeLeafStrict(nds, lc, t) ==
    /\ t.current_leaf < lc
    /\ \/ t.current_branch = t.last_branch
       \/ nds[t.current_leaf].frequency < nds[t.current_branch].frequency

\* the condition of both if statements of the loop body: take the leaf cursor
TakeLeaf(nds, lc, t) ==
    /\ t.current_leaf < lc
    /\ \/ t.current_branch = t.last_branch
       \/ nds[t.current_leaf].frequency <= nds[t.current_branch].frequency

\* a choice that leaves the cursors where they are
PickChildNoAdvance(nds, lc, t) ==
    IF TakeLeaf(nds, lc, t)
    THEN [t EXCEPT !.pick = t.current_leaf]
    ELSE [t EXCEPT !.pick = t.current_branch]

\* the locals after choosing one child; the chosen index is in field "pick"
PickChild(nds, lc, t) ==
    IF TakeLeaf(nds, lc, t)
    THEN [t EXCEPT !.pick = t.current_leaf, !.current_leaf = t.current_leaf + 1]
    ELSE [t EXCEPT !.pick = t.current_branch, !.current_branch = t.current_branch + 1]

\* one iteration of the for loop: <<nodes, locals>> after it
construct_tree_iter(nds, lc, t) ==
    LET t1 == PickChild(nds, lc, t)
        left_index == t1.pick
        t2 == PickChild(nds, lc, t1)
        right_index == t2.pick
    IN  <<[nds EXCEPT ![t.last_branch] = construct_branch(nds, left_index, right_index)],
          [t2 EXCEPT !.i = t.i + 1, !.last_branch = t.last_branch + 1,
                     !.left = left_index, !.right = right_index]>>

TreeLocals0(lc) ==
    [i |-> 0, current_leaf |-> 0, current_branch |-> lc, last_branch |-> lc,
     pick |-> 0, left |-> 0, right |-> 0]

\* the whole function, for callers that need the finished tree at once
RECURSIVE construct_tree_loop(_, _, _)
construct_tree_loop(nds, lc, t) ==
    IF t.i < lc - 1
    THEN LET r == construct_tree_iter(nds, lc, t)
         IN  construct_tree_loop(r[1], lc, r[2])
    ELSE <<nds, t.last_branch - 1>>

\* <<nodes, root index>>; the root index is -1 where the code returns NULL
construct_tree(nds, lc) ==
    IF lc <= 0 THEN <<nds, 0 - 1>>
    ELSE IF lc = 1 THEN <<nds, 0>>
    ELSE construct_tree_loop(nds, lc, TreeLocals0(lc))

(***************************************************************************)
(* check_cache, find_leaf.                                                 *)
(***************************************************************************)
\* a lookup that hands out the cached path lengthened by one bit
check_cache_altered(leaf, c) == IF leaf \in DOMAIN c THEN c[leaf] \o <<"0">> ELSE NULL

check_cache(leaf, c) == IF leaf \in DOMAIN c THEN c[leaf] ELSE NULL

\* the path to the leaf, depth first, left subtree before right; every malloc succeeds
RECURSIVE find_leaf(_, _, _)
find_leaf(leaf, nds, r) ==
    IF nds[r].type = "LEAF"
    THEN IF nds[r].data = leaf THEN <<>> ELSE NULL
    ELSE LET resl == find_leaf(leaf, nds, nds[r].left)
         IN  IF resl # NULL THEN <<"0">> \o resl
             ELSE LET resr == find_leaf(leaf, nds, nds[r].right)
                  IN  IF resr # NULL THEN <<"1">> \o resr ELSE NULL

(***************************************************************************)
(* compress.                                                               *)
(***************************************************************************)
\* store one byte at compressed_data[index]; a store outside the allocation is
\* recorded and dropped
StoreByte(c, index, b) ==
    IF index < Len(c.out)
    THEN [c EXCEPT !.out = [c.out EXCEPT ![index + 1] = b]]
    ELSE [c EXCEPT !.overflow = TRUE]

\* the inner loop filling each byte from its least significant bit
RECURSIVE PackPathLsb(_, _, _)
PackPathLsb(path, j, c) ==
    IF j > Len(path) THEN c
    ELSE LET c1 == IF path[j] = "1"
                   THEN [c EXCEPT !.buffer = SetBit(c.buffer, c.bit_count)]
                   ELSE c
             c2 == [c1 EXCEPT !.bit_count = c1.bit_count + 1]
             c3 == IF c2.bit_count = 8
                   THEN [StoreByte(c2, c2.total_bits \div 8, c2.buffer)
                            EXCEPT !.total_bits = c2.total_bits + 8,
                                   !.buffer = 0, !.bit_count = 0]
                   ELSE c2
         IN  PackPathLsb(path, j + 1, c3)

\* the inner for loop over the characters of one path, from position j
RECURSIVE PackPath(_, _, _)
PackPath(path, j, c) ==
    IF j > Len(path) THEN c
    ELSE LET c1 == IF path[j] = "1"
                   THEN [c EXCEPT !.buffer = SetBit(c.buffer, 7 - c.bit_count)]
                   ELSE c
             c2 == [c1 EXCEPT !.bit_count = c1.bit_count + 1]
             c3 == IF c2.bit_count = 8
                   THEN [StoreByte(c2, c2.total_bits \div 8, c2.buffer)
                            EXCEPT !.total_bits = c2.total_bits + 8,
                                   !.buffer = 0, !.bit_count = 0]
                   ELSE c2
         IN  PackPath(path, j + 1, c3)

\* if (bit_count > 0) { store; total_bits += bit_count; }
FlushTail(c) ==
    IF c.bit_count > 0
    THEN [StoreByte(c, c.total_bits \div 8, c.buffer)
             EXCEPT !.total_bits = c.total_bits + c.bit_count]
    ELSE c

\* the special case loop: one zero bit for each of the n input characters
RECURSIVE ZeroBits(_, _)
ZeroBits(n, c) ==
    IF n = 0 THEN c
    ELSE LET c2 == [c EXCEPT !.bit_count = c.bit_count + 1]
             c3 == IF c2.bit_count = 8
                   THEN [StoreByte(c2, c2.total_bits \div 8, c2.buffer)
                            EXCEPT !.total_bits = c2.total_bits + 8,
                                   !.buffer = 0, !.bit_count = 0]
                   ELSE c2
         IN  ZeroBits(n - 1, c3)

\* compress without the special case of a single distinct symbol
SingleSymbolCaseSkipped(data_len, c) == c

\* if (total_bits == 0 && data_len > 0) { ... }
SingleSymbolCase(data_len, c) ==
    IF c.total_bits = 0 /\ data_len > 0
    THEN FlushTail(ZeroBits(data_len, [c EXCEPT !.buffer = 0, !.bit_count = 0]))
    ELSE c

\* (size_t)ceil((double)total_bits / 8.0), for bit counts below 2^53
FinalSize(total_bits) == (total_bits + 7) \div 8

\* the locals with an output buffer of one byte for every eight input bytes
CompLocalsEighth(data_len) ==
    [i |-> 0, buffer |-> 0, bit_count |-> 0, total_bits |-> 0,
     out |-> Rep(Indeterminate, data_len \div 8), overflow |-> FALSE]

CompLocals0(data_len) ==
    [i |-> 0, buffer |-> 0, bit_count |-> 0, total_bits |-> 0,
     out |-> Rep(Indeterminate, data_len), overflow |-> FALSE]

NoFile ==
    [is_dir |-> FALSE, original_size |-> 0, tree_size |-> 0, huffman_tree |-> <<>>,
     data_size |-> 0, compressed_data |-> NULL]

(***************************************************************************)
(* decompress.                                                             *)
(***************************************************************************)
\* long root_index = (tree_size / sizeof(Node)) - 1, for tree sizes below 2^31;
\* a tree_size of 0 gives SIZE_MAX, which is -1 as a long
RootIndex(tree_size) == (tree_size \div SizeofNode) - 1

DecLocals0(root_index) ==
    [i |-> 0, current_node |-> root_index, current_raw |-> 0, buffer |-> 0,
     root_index |-> root_index]

\* the loop body reading each byte from its least significant bit
decompress_bit_lsb(cf, d, out) ==
    LET buf == IF d.i % 8 = 0 THEN cf.compressed_data[(d.i \div 8) + 1] ELSE d.buffer
        ht == cf.huffman_tree
    IN  IF ht[d.root_index].type = "LEAF"
        THEN <<[d EXCEPT !.i = d.i + 1, !.buffer = buf, !.current_raw = d.current_raw + 1],
               [out EXCEPT ![d.current_raw + 1] = ht[d.root_index].data]>>
        ELSE LET nxt == IF TestBit(buf, d.i % 8)
                        THEN ht[d.current_node].right
                        ELSE ht[d.current_node].left
             IN  IF ht[nxt].type = "LEAF"
                 THEN <<[d EXCEPT !.i = d.i + 1, !.buffer = buf,
                                  !.current_node = d.root_index,
                                  !.current_raw = d.current_raw + 1],
                        [out EXCEPT ![d.current_raw + 1] = ht[nxt].data]>>
                 ELSE <<[d EXCEPT !.i = d.i + 1, !.buffer = buf, !.current_node = nxt], out>>

\* the body of the for loop for bit i, when neither the loop condition nor the
\* break has ended the loop: <<locals, raw>> after it
decompress_bit(cf, d, out) ==
    LET buf == IF d.i % 8 = 0 THEN cf.compressed_data[(d.i \div 8) + 1] ELSE d.buffer
        ht == cf.huffman_tree
    IN  IF ht[d.root_index].type = "LEAF"
        THEN <<[d EXCEPT !.i = d.i + 1, !.buffer = buf, !.current_raw = d.current_raw + 1],
               [out EXCEPT ![d.current_raw + 1] = ht[d.root_index].data]>>
        ELSE LET nxt == IF TestBit(buf, 7 - (d.i % 8))
                        THEN ht[d.current_node].right
                        ELSE ht[d.current_node].left
             IN  IF ht[nxt].type = "LEAF"
                 THEN <<[d EXCEPT !.i = d.i + 1, !.buffer = buf,
                                  !.current_node = d.root_index,
                                  !.current_raw = d.current_raw + 1],
                        [out EXCEPT ![d.current_raw + 1] = ht[nxt].data]>>
                 ELSE <<[d EXCEPT !.i = d.i + 1, !.buffer = buf, !.current_node = nxt], out>>

\* the for loop goes on: i < data_size and not (current_raw >= original_size)
\* the loop condition alone, without the break on the target count
DecompressGoesOnNoBreak(cf, d) == d.i < cf.data_size

DecompressGoesOn(cf, d) ==
    /\ d.i < cf.data_size
    /\ ~(d.current_raw >= cf.original_size)

(***************************************************************************)
(* 64-bit words (long, size_t, pointers): four 16-bit limbs, least          *)
(* significant first, with the wrap-around of the machine.                  *)
(***************************************************************************)
Limb == 256 * 256

\* a natural number below 2^31 as a 64-bit word
U64(n) == <<n % Limb, n \div Limb, 0, 0>>

\* 2^64 - n for 0 < n < 2^16: the word that holds (size_t)(-n)
Neg64(n) == <<Limb - n, Limb - 1, Limb - 1, Limb - 1>>

\* the word is below 2^31
Small(a) == a[3] = 0 /\ a[4] = 0 /\ a[2] < Limb \div 2

ToInt(a) == a[1] + Limb * a[2]

\* a + b modulo 2^64
Add64(a, b) ==
    LET s1 == a[1] + b[1]
        s2 == a[2] + b[2] + (s1 \div Limb)
        s3 == a[3] + b[3] + (s2 \div Limb)
        s4 == a[4] + b[4] + (s3 \div Limb)
    IN  <<s1 % Limb, s2 % Limb, s3 % Limb, s4 % Limb>>

\* a < b as unsigned words (size_t, pointers)
Lt64(a, b) == \E k \in 1..4 : a[k] < b[k] /\ \A j \in (k + 1)..4 : a[j] = b[j]

\* the word is negative when read as a long
IsNeg64(a) == a[4] >= Limb \div 2

\* a < b as signed words (long, ptrdiff_t)
Lts64(a, b) == IF IsNeg64(a) # IsNeg64(b) THEN IsNeg64(a) ELSE Lt64(a, b)

\* a >> 3
Shr3(a) ==
    <<(a[1] \div 8) + (a[2] % 8) * (Limb \div 8),
      (a[2] \div 8) + (a[3] % 8) * (Limb \div 8),
      (a[3] \div 8) + (a[4] % 8) * (Limb \div 8),
      a[4] \div 8>>

\* (data_size + 7) / 8 in size_t arithmetic: the writer's byte count
WriterBytes(data_size) == Shr3(Add64(data_size, U64(7)))

\* the number of low bits (double)x drops from a 64-bit x: 0 below 2^53
DroppedBits(x) == CHOOSE d \in 0..11 :
                     /\ x[4] < 32 * Pow2(d)
                     /\ \A e \in 0..(d - 1) : ~(x[4] < 32 * Pow2(e))

\* (long)ceil((double)data_size / 8.0): the reader's byte count. The conversion
\* to double rounds to 53 significant bits, to nearest, ties to even; the
\* division by 8.0 and ceil are exact.
ReaderBytes(data_size) ==
    LET d == DroppedBits(data_size)
        low == data_size[1] % Pow2(d)
        half == IF d = 0 THEN 0 ELSE Pow2(d - 1)
        odd == (data_size[1] \div Pow2(d)) % 2 = 1
        roundup == d > 0 /\ (low > half \/ (low = half /\ odd))
        x0 == <<data_size[1] - low, data_size[2], data_size[3], data_size[4]>>
        inc == IF roundup THEN Pow2(d) ELSE 0
    IN  Add64(Shr3(x0), U64(((x0[1] % 8) + inc + 7) \div 8))

\* ceil(bit_len / 8) in exact arithmetic
CeilBytes(bit_len) ==
    Add64(Shr3(bit_len), U64(IF bit_len[1] % 8 = 0 THEN 0 ELSE 1))

\* memcpy of a long to the file: 8 bytes, least significant first
LE64(a) ==
    <<a[1] % 256, a[1] \div 256, a[2] % 256, a[2] \div 256,
      a[3] % 256, a[3] \div 256, a[4] % 256, a[4] \div 256>>

\* *(long*)current: the 8 bytes from offset o of a buffer as a word
Read64(bytes, o) ==
    <<bytes[o + 1] + 256 * bytes[o + 2], bytes[o + 3] + 256 * bytes[o + 4],
      bytes[o + 5] + 256 * bytes[o + 6], bytes[o + 7] + 256 * bytes[o + 8]>>

\* the first n elements of a sequence
Take(s, n) == SubSeq(s, 1, n)

(***************************************************************************)
(* The container file: write_compressed.                                   *)
(***************************************************************************)
\* static const char magic[4] = {'H', 'U', 'F', 'F'}
magic == <<72, 85, 70, 70>>

\* no file on disk
NoImage == <<"no file">>

NoStructure ==
    [is_dir |-> FALSE, original_size |-> 0, original_file |-> <<>>, tree_size |-> 0,
     huffman_tree |-> <<>>, data_size |-> 0, compressed_data |-> <<>>]

\* the fields with the tree written before the name
LayoutTreeFirst(m, is_dir, original_size, name_len, name, tree_len, tree_bytes, bit_len, packed) ==
    m \o <<IF is_dir THEN 1 ELSE 0>> \o LE64(original_size)
      \o LE64(tree_len) \o tree_bytes
      \o LE64(name_len) \o name
      \o LE64(bit_len) \o packed

\* the fields of a container in their order in the file
Layout(m, is_dir, original_size, name_len, name, tree_len, tree_bytes, bit_len, packed) ==
    m \o <<IF is_dir THEN 1 ELSE 0>> \o LE64(original_size)
      \o LE64(name_len) \o name
      \o LE64(tree_len) \o tree_bytes
      \o LE64(bit_len) \o packed

\* the buffer write_compressed fills (name_len = strlen(original_file))
write_compressed_data(c) ==
    LET name_len == Len(c.original_file)
    IN  Layout(magic, c.is_dir, U64(c.original_size), U64(name_len), c.original_file,
               U64(c.tree_size), Take(c.huffman_tree, c.tree_size),
               U64(c.data_size),
               Take(c.compressed_data, ToInt(WriterBytes(U64(c.data_size)))))

\* file_size as write_compressed computes it
write_compressed_size(c) ==
    4 + 1 + 8 + 8 + Len(c.original_file) + 8 + c.tree_size + 8
      + ToInt(WriterBytes(U64(c.data_size)))

\* write_raw: the outcome and the file it leaves
write_raw(file, bytes, file_size, overwrite, answer, fopen_ok, written_size) ==
    IF file # NoImage /\ ~overwrite /\ answer = "eof"
    THEN [ret |-> SCANF_FAILED, file |-> file]
    ELSE IF file # NoImage /\ ~overwrite /\ answer # "y"
    THEN [ret |-> NO_OVERWRITE, file |-> file]
    ELSE IF ~fopen_ok THEN [ret |-> FILE_WRITE_ERROR, file |-> file]
    ELSE IF file_size # written_size
    THEN [ret |-> FILE_WRITE_ERROR, file |-> Take(bytes, written_size)]
    ELSE [ret |-> written_size, file |-> Take(bytes, written_size)]

(***************************************************************************)
(* The container file: read_compressed.                                    *)
(***************************************************************************)
\* addresses mmap may map the file at: low and near the top of user space
Bases == {<<0, 1, 0, 0>>, <<61440, 65535, 32767, 0>>}

\* Forming a pointer past the end of the mapping is undefined. A build compares
\* the wrapped addresses ("flat"), or, having folded the common base away,
\* the signed offsets ("folded").
Builds == {"flat", "folded"}

\* what a read outside the mapping may find
Garbage64 == {U64(0), Neg64(1)}

\* read_compressed before it is called; the Compressed_file comes from calloc
RcIdle ==
    [build |-> "flat", base |-> U64(0), file_size |-> 0, off |-> U64(0), ret |-> SUCCESS,
     read |-> {}, oob |-> FALSE, name_len |-> U64(0), compressed_bytes |-> NULL,
     magic |-> <<0, 0, 0, 0>>, is_dir |-> FALSE, original_size |-> U64(0),
     original_file |-> NULL, tree_size |-> U64(0), huffman_tree |-> NULL,
     data_size |-> U64(0), compressed_data |-> NULL, file_name |-> NULL]

\* a comparison of the magic that accepts any four bytes
MagicNotCompared(m) == TRUE

\* memcmp(compressed->magic, magic, sizeof(magic)) == 0
MagicMatches(m) == m = magic

\* current + n > end
PastEnd(r, n) ==
    IF r.build = "flat"
    THEN Lt64(Add64(r.base, U64(r.file_size)), Add64(Add64(r.base, r.off), n))
    ELSE Lts64(U64(r.file_size), Add64(r.off, n))

\* the n bytes at current lie inside the mapping
InBounds(r, n) == Small(r.off) /\ ToInt(r.off) + n <= r.file_size

\* the record of a read of n bytes at current
Touch(r, n) ==
    IF InBounds(r, n)
    THEN [r EXCEPT !.read = @ \cup (ToInt(r.off)..(ToInt(r.off) + n - 1))]
    ELSE [r EXCEPT !.oob = TRUE]

\* current += n
Advance(r, n) == [r EXCEPT !.off = Add64(@, n)]

\* *(long*)current, g being what a read outside the mapping finds
Field64(r, bytes, g) == IF InBounds(r, 8) THEN Read64(bytes, ToInt(r.off)) ELSE g

\* ret = code; break
Fail(r, code) == [r EXCEPT !.ret = code]

(***************************************************************************)
(* The compression pipeline: main, run_compression, compress, decompress.  *)
(***************************************************************************)
TreeIdle == TreeLocals0(0)
CompIdle == CompLocals0(0)
DecIdle == DecLocals0(0)

\* main with a read_raw that does not tell an empty file from any other
MainReadRawNoEmptyFile ==
    /\ pc = "main"
    /\ res' = Len(data)
    /\ pc' = "run_compression"
    /\ UNCHANGED not_codec
    /\ UNCHANGED <<data, nodes, leaf_count, tree, root_node, cache, comp,
                   compressed_file, dec, raw, output_file>>

\* main, compress mode, single file: read_raw of the input file
MainReadRaw ==
    /\ pc = "main"
    /\ IF Len(data) = 0
       THEN /\ res' = EMPTY_FILE
            /\ pc' = "exit"
       ELSE /\ res' = Len(data)
            /\ pc' = "run_compression"
    /\ UNCHANGED not_codec
    /\ UNCHANGED <<data, nodes, leaf_count, tree, root_node, cache, comp,
                   compressed_file, dec, raw, output_file>>

\* run_compression up to the creation of the leaves
RunCompressionCount ==
    /\ pc = "run_compression"
    /\ LET frequencies == count_frequencies(data)
           lc == Cardinality({b \in Byte : frequencies[b] # 0})
       IN  /\ leaf_count' = lc
           /\ IF lc = 0
              THEN /\ res' = SUCCESS
                   /\ pc' = "exit"
                   /\ nodes' = nodes
              ELSE /\ res' = res
                   /\ pc' = "sort_nodes"
                   /\ nodes' = Leaves(frequencies)
    /\ UNCHANGED not_codec
    /\ UNCHANGED <<data, tree, root_node, cache, comp, compressed_file, dec, raw,
                   output_file>>

\* sort_nodes, then the entry of construct_tree
SortNodes ==
    /\ pc = "sort_nodes"
    /\ \E sorted \in sort_nodes(nodes) :
          nodes' = [k \in 0..(2 * leaf_count - 2) |->
                       IF k < leaf_count THEN sorted[k] ELSE NoNode]
    /\ tree' = TreeLocals0(leaf_count)
    /\ pc' = "construct_tree"
    /\ UNCHANGED not_codec
    /\ UNCHANGED <<data, leaf_count, root_node, cache, comp, compressed_file, dec,
                   raw, res, output_file>>

ConstructTreeStep ==
    /\ pc = "construct_tree"
    /\ leaf_count > 1
    /\ tree.i < leaf_count - 1
    /\ LET r == construct_tree_iter(nodes, leaf_count, tree)
       IN  /\ nodes' = r[1]
           /\ tree' = r[2]
    /\ UNCHANGED not_codec
    /\ UNCHANGED <<pc, data, leaf_count, root_node, cache, comp, compressed_file,
                   dec, raw, res, output_file>>

\* construct_tree returns; run_compression allocates the cache and the structure
ConstructTreeReturn ==
    /\ pc = "construct_tree"
    /\ leaf_count <= 1 \/ ~(tree.i < leaf_count - 1)
    /\ root_node' = IF leaf_count <= 0 THEN 0 - 1
                    ELSE IF leaf_count = 1 THEN 0
                    ELSE tree.last_branch - 1
    /\ cache' = <<>>
    /\ pc' = "compress"
    /\ UNCHANGED not_codec
    /\ UNCHANGED <<data, nodes, leaf_count, tree, comp, compressed_file, dec, raw,
                   res, output_file>>

\* compress up to its first loop
CompressEnter ==
    /\ pc = "compress"
    /\ IF Len(data) = 0
       THEN /\ compressed_file' = [compressed_file EXCEPT !.data_size = 0,
                                                          !.compressed_data = NULL]
            /\ res' = 0
            /\ pc' = "compressed"
            /\ comp' = comp
       ELSE \E malloc_ok \in BOOLEAN :
               IF malloc_ok
               THEN /\ comp' = CompLocals0(Len(data))
                    /\ pc' = "compress_loop"
                    /\ UNCHANGED <<compressed_file, res>>
               ELSE /\ compressed_file' = [compressed_file EXCEPT !.data_size = 0,
                                                                  !.compressed_data = NULL]
                    /\ res' = MALLOC_ERROR
                    /\ pc' = "exit"
                    /\ comp' = comp
    /\ UNCHANGED not_codec
    /\ UNCHANGED <<data, nodes, leaf_count, tree, root_node, cache, dec, raw,
                   output_file>>

\* one iteration of the loop over the input characters
CompressSymbol ==
    /\ pc = "compress_loop"
    /\ comp.i < Len(data)
    /\ LET leaf == data[comp.i + 1]
           cached == check_cache(leaf, cache)
       IN  \E malloc_ok \in BOOLEAN :
             LET path == IF cached # NULL THEN cached
                         ELSE IF malloc_ok THEN find_leaf(leaf, nodes, root_node)
                         ELSE NULL
             IN  IF path = NULL
                 THEN /\ compressed_file' = [compressed_file EXCEPT !.data_size = 0,
                                                                    !.compressed_data = NULL]
                      /\ res' = TREE_ERROR
                      /\ pc' = "exit"
                      /\ UNCHANGED <<cache, comp>>
                 ELSE /\ cache' = IF cached = NULL
                                  THEN [b \in DOMAIN cache \cup {leaf} |->
                                           IF b = leaf THEN path ELSE cache[b]]
                                  ELSE cache
                      /\ comp' = [PackPath(path, 1, comp) EXCEPT !.i = comp.i + 1]
                      /\ UNCHANGED <<compressed_file, res, pc>>
    /\ UNCHANGED not_codec
    /\ UNCHANGED <<data, nodes, leaf_count, tree, root_node, dec, raw, output_file>>

\* compress after the loop: the last partial byte, the single-symbol case,
\* data_size and the realloc
CompressFinish ==
    /\ pc = "compress_loop"
    /\ ~(comp.i < Len(data))
    /\ LET c == SingleSymbolCase(Len(data), FlushTail(comp))
           final_size == FinalSize(c.total_bits)
       IN  /\ comp' = c
           /\ \E realloc_ok \in BOOLEAN :
                compressed_file' =
                    [compressed_file EXCEPT
                        !.data_size = c.total_bits,
                        !.compressed_data = IF realloc_ok /\ final_size <= Len(c.out)
                                            THEN SubSeq(c.out, 1, final_size)
                                            ELSE c.out]
    /\ res' = 0
    /\ pc' = "compressed"
    /\ UNCHANGED not_codec
    /\ UNCHANGED <<data, nodes, leaf_count, tree, root_node, cache, dec, raw,
                   output_file>>

\* the property-test chain: build the tree from the buffer's frequencies; with no
\* symbol at all construct_tree returns NULL and the chain goes on to compress
CodecChainBuild ==
    /\ pc = "codec_chain"
    /\ LET frequencies == count_frequencies(data)
           lc == Cardinality({b \in Byte : frequencies[b] # 0})
       IN  /\ leaf_count' = lc
           /\ IF lc = 0
              THEN /\ nodes' = <<>>
                   /\ root_node' = construct_tree(<<>>, lc)[2]
                   /\ cache' = <<>>
                   /\ pc' = "compress"
              ELSE /\ nodes' = Leaves(frequencies)
                   /\ pc' = "sort_nodes"
                   /\ UNCHANGED <<root_node, cache>>
    /\ UNCHANGED not_codec
    /\ UNCHANGED <<data, tree, comp, compressed_file, dec, raw, res, output_file>>

\* the fields the caller of compress fills in (run_compression, lines 364-370)
FillStructure(cf, is_dir) ==
    [cf EXCEPT !.is_dir = is_dir,
               !.huffman_tree = nodes,
               !.tree_size = (root_node + 1) * SizeofNode,
               !.original_size = Len(data)]

\* write_compressed: the value it returns and the file it leaves, given the
\* overwrite flag, the answer to the prompt and the system call that fails
write_compressed(file, overwrite, answer, fails) ==
    LET prompted == ~overwrite /\ file # "absent"
    IN  IF prompted /\ answer = "eof"
        THEN [ret |-> SCANF_FAILED, file |-> file, prompted |-> TRUE, opened |-> FALSE]
        ELSE IF prompted /\ answer # "y"
        THEN [ret |-> NO_OVERWRITE, file |-> file, prompted |-> TRUE, opened |-> FALSE]
        ELSE IF fails = "open"
        THEN [ret |-> FILE_WRITE_ERROR, file |-> file, prompted |-> prompted,
              opened |-> FALSE]
        ELSE IF fails # "none"
        THEN [ret |-> FILE_WRITE_ERROR, file |-> "partial", prompted |-> prompted,
              opened |-> TRUE]
        ELSE [ret |-> 1, file |-> "container", prompted |-> prompted, opened |-> TRUE]

\* run_compression from the return of compress to its own return
\* (write_res is replaced by a positive errno value before `if (write_res < 0)
\* res = write_res`, so res keeps its 0 when the write has failed)
RunCompressionWrite ==
    /\ pc = "compressed"
    /\ leaf_count > 0
    /\ \E is_dir \in BOOLEAN :
          compressed_file' = FillStructure(compressed_file, is_dir)
    /\ \E force \in BOOLEAN, answer \in {"y", "n", "eof"},
          fails \in {"none", "open", "ftruncate", "mmap", "msync"} :
          LET w == write_compressed(output_file, force, answer, fails)
              write_res == IF w.ret >= 0 THEN w.ret
                           ELSE IF w.ret = NO_OVERWRITE THEN ECANCELED
                           ELSE IF w.ret = MALLOC_ERROR THEN ENOMEM
                           ELSE EIO
          IN  /\ output_file' = w.file
              /\ wc' = [called |-> TRUE, existed |-> output_file # "absent",
                        overwrite |-> force, answer |-> answer, fails |-> fails,
                        prompted |-> w.prompted, opened |-> w.opened, ret |-> w.ret]
              /\ res' = IF write_res < 0 THEN write_res ELSE SUCCESS
    /\ pc' = "exit"
    /\ UNCHANGED <<image, wr, rc, fs, ar, rs, cli>>
    /\ UNCHANGED <<data, nodes, leaf_count, tree, root_node, cache, comp, dec, raw>>

\* the chain hands the tree and the bit stream to decompress, original_size = |B|
CodecChainFill ==
    /\ pc = "compressed"
    /\ compressed_file' = FillStructure(compressed_file, FALSE)
    /\ pc' = "decompress"
    /\ UNCHANGED not_codec
    /\ UNCHANGED <<data, nodes, leaf_count, tree, root_node, cache, comp, dec, raw,
                   res, output_file>>

\* decompress up to its loop; raw is the caller's buffer of original_size bytes
DecompressEnter ==
    /\ pc = "decompress"
    /\ LET root_index == RootIndex(compressed_file.tree_size)
       IN  IF root_index < 0
           THEN /\ res' = TREE_ERROR
                /\ pc' = "decoded"
                /\ UNCHANGED dec
           ELSE /\ dec' = DecLocals0(root_index)
                /\ pc' = "decompress_loop"
                /\ UNCHANGED res
    /\ raw' = Rep(Indeterminate, compressed_file.original_size)
    /\ UNCHANGED not_codec
    /\ UNCHANGED <<data, nodes, leaf_count, tree, root_node, cache, comp,
                   compressed_file, output_file>>

DecompressBit ==
    /\ pc = "decompress_loop"
    /\ DecompressGoesOn(compressed_file, dec)
    /\ LET r == decompress_bit(compressed_file, dec, raw)
       IN  /\ dec' = r[1]
           /\ raw' = r[2]
    /\ UNCHANGED not_codec
    /\ UNCHANGED <<pc, data, nodes, leaf_count, tree, root_node, cache, comp,
                   compressed_file, res, output_file>>

DecompressReturn ==
    /\ pc = "decompress_loop"
    /\ ~DecompressGoesOn(compressed_file, dec)
    /\ res' = 0
    /\ pc' = "decoded"
    /\ UNCHANGED not_codec
    /\ UNCHANGED <<data, nodes, leaf_count, tree, root_node, cache, comp,
                   compressed_file, dec, raw, output_file>>

InitCodec ==
    /\ pc \in {"main", "run_compression", "codec_chain"}
    /\ data \in Inputs
    /\ nodes = <<>>
    /\ leaf_count = 0
    /\ tree = TreeIdle
    /\ root_node = 0 - 1
    /\ cache = <<>>
    /\ comp = CompIdle
    /\ compressed_file = NoFile
    /\ dec = DecIdle
    /\ raw = <<>>
    /\ res = 0
    /\ output_file \in {"absent", "old"}
    /\ image = NoImage
    /\ wr = NoStructure
    /\ rc = RcIdle
    /\ fs = FsIdle
    /\ ar = ArIdle
    /\ rs = RsIdle
    /\ cli = CliIdle
    /\ wc = WcIdle

NextCodec ==
    \/ MainReadRaw
    \/ RunCompressionCount
    \/ CodecChainBuild
    \/ SortNodes
    \/ ConstructTreeStep
    \/ ConstructTreeReturn
    \/ CompressEnter
    \/ CompressSymbol
    \/ CompressFinish
    \/ RunCompressionWrite
    \/ CodecChainFill
    \/ DecompressEnter
    \/ DecompressBit
    \/ DecompressReturn

SpecCodec == InitCodec /\ [][NextCodec]_vars

(***************************************************************************)
(* Decompression of an arbitrary container structure: run_decompression    *)
(* after read_compressed, and decompress called on its own.                *)
(***************************************************************************)
\* largest recorded bit length (data_size) of a container
MaxBits == 10
\* largest recorded original_size of a container
MaxOrig == 5

EINVAL == 22

\* packed bytes of the containers
SampleBytes == {0, 165, 255}

\* the trees (node array, root index) the compressor builds for a buffer
TreesOf(d) ==
    LET lc == Cardinality({b \in Byte : count_frequencies(d)[b] # 0})
    IN  {construct_tree([k \in 0..(2 * lc - 2) |-> IF k < lc THEN sorted[k] ELSE NoNode], lc) :
            sorted \in sort_nodes(Leaves(count_frequencies(d)))}

\* the Compressed_file structures read_compressed can hand over: no tree, a
\* single leaf, and trees of two and three leaves
Containers ==
    LET trees == {<<(<<>>), 0 - 1>>} \cup TreesOf(<<65>>) \cup TreesOf(<<65, 66>>)
                    \cup TreesOf(<<65, 66, 66, 200, 200, 200>>)
    IN  UNION {{[is_dir |-> FALSE,
                 original_size |-> os,
                 tree_size |-> (t[2] + 1) * SizeofNode,
                 huffman_tree |-> t[1],
                 data_size |-> ds,
                 compressed_data |-> cd] :
                   t \in trees, os \in 0..MaxOrig,
                   cd \in {c \in SeqsUpTo(SampleBytes, (MaxBits + 7) \div 8) :
                              Len(c) = (ds + 7) \div 8}} : ds \in 0..MaxBits}

\* run_decompression between read_compressed and decompress
RunDecompressionCheck ==
    /\ pc = "run_decompression"
    /\ IF compressed_file.original_size <= 0
       THEN /\ res' = EINVAL
            /\ pc' = "exit"
       ELSE /\ res' = res
            /\ pc' = "decompress"
    /\ UNCHANGED not_codec
    /\ UNCHANGED <<data, nodes, leaf_count, tree, root_node, cache, comp,
                   compressed_file, dec, raw, output_file>>

InitDecode ==
    /\ pc \in {"run_decompression", "decompress"}
    /\ compressed_file \in Containers
    /\ data = <<>>
    /\ nodes = <<>>
    /\ leaf_count = 0
    /\ tree = TreeIdle
    /\ root_node = 0 - 1
    /\ cache = <<>>
    /\ comp = CompIdle
    /\ dec = DecIdle
    /\ raw = <<>>
    /\ res = 0
    /\ output_file = "absent"
    /\ image = NoImage
    /\ wr = NoStructure
    /\ rc = RcIdle
    /\ fs = FsIdle
    /\ ar = ArIdle
    /\ rs = RsIdle
    /\ cli = CliIdle
    /\ wc = WcIdle

NextDecode ==
    \/ RunDecompressionCheck
    \/ DecompressEnter
    \/ DecompressBit
    \/ DecompressReturn

SpecDecode == InitDecode /\ [][NextDecode]_vars

(***************************************************************************)
(* The steps of write_compressed and read_compressed.                      *)
(***************************************************************************)
\* one step of read_compressed: on an error the loop is left for the clean-up
RcStep(r, next) ==
    /\ rc' = r
    /\ pc' = IF r.ret # SUCCESS THEN "rc_exit" ELSE next
    /\ UNCHANGED <<image, wr, res>>
    /\ UNCHANGED not_container

\* read_raw and the initialisation of the pointers
ReadCompressedEnter ==
    /\ pc = "read_compressed"
    /\ \E base \in Bases, build \in Builds :
          IF image = NoImage \/ Len(image) = 0
          THEN /\ res' = IF image = NoImage THEN FILE_READ_ERROR ELSE EMPTY_FILE
               /\ rc' = [rc EXCEPT !.ret = res']
               /\ pc' = "read_done"
          ELSE /\ rc' = [RcIdle EXCEPT !.base = base, !.build = build,
                                       !.file_size = Len(image)]
               /\ pc' = "rc_magic"
               /\ res' = res
    /\ UNCHANGED <<image, wr>>
    /\ UNCHANGED not_container

ReadMagic ==
    /\ pc = "rc_magic"
    /\ IF PastEnd(rc, U64(4))
       THEN RcStep(Fail(rc, FILE_READ_ERROR), "rc_is_dir")
       ELSE LET m == SubSeq(image, 1, 4)
                r == Advance([Touch(rc, 4) EXCEPT !.magic = m], U64(4))
            IN  IF ~MagicMatches(m)
                THEN RcStep(Fail(r, FILE_MAGIC_ERROR), "rc_is_dir")
                ELSE RcStep(r, "rc_is_dir")

ReadIsDir ==
    /\ pc = "rc_is_dir"
    /\ IF PastEnd(rc, U64(1))
       THEN RcStep(Fail(rc, FILE_READ_ERROR), "rc_original_size")
       ELSE RcStep(Advance([Touch(rc, 1) EXCEPT !.is_dir = image[ToInt(rc.off) + 1] # 0],
                           U64(1)),
                   "rc_original_size")

ReadOriginalSize ==
    /\ pc = "rc_original_size"
    /\ IF PastEnd(rc, U64(8))
       THEN RcStep(Fail(rc, FILE_READ_ERROR), "rc_name_len")
       ELSE RcStep(Advance([Touch(rc, 8) EXCEPT
                               !.original_size = Read64(image, ToInt(rc.off))], U64(8)),
                   "rc_name_len")

\* name_len is a long: a negative one is refused
ReadNameLen ==
    /\ pc = "rc_name_len"
    /\ IF PastEnd(rc, U64(8))
       THEN RcStep(Fail(rc, FILE_READ_ERROR), "rc_name")
       ELSE LET r == Advance([Touch(rc, 8) EXCEPT
                                 !.name_len = Read64(image, ToInt(rc.off))], U64(8))
            IN  IF IsNeg64(r.name_len)
                THEN RcStep(Fail(r, FILE_MAGIC_ERROR), "rc_name")
                ELSE RcStep(r, "rc_name")

\* malloc(name_len + 1) and the copy of the name
ReadName ==
    /\ pc = "rc_name"
    /\ IF PastEnd(rc, rc.name_len)
       THEN RcStep(Fail(rc, FILE_READ_ERROR), "rc_tree_size")
       ELSE \E malloc_ok \in BOOLEAN :
               IF ~malloc_ok \/ ~Small(Add64(rc.name_len, U64(1)))
               THEN RcStep(Fail(rc, MALLOC_ERROR), "rc_tree_size")
               ELSE LET n == ToInt(rc.name_len)
                        r == Touch(rc, n)
                    IN  RcStep(Advance([r EXCEPT !.original_file =
                                           <<"heap", IF r.oob THEN <<>>
                                                     ELSE SubSeq(image, ToInt(rc.off) + 1,
                                                                 ToInt(rc.off) + n)>>],
                                       rc.name_len),
                               "rc_tree_size")

\* compressed->tree_size < 0 and compressed->data_size < 0: the fields are size_t,
\* so the comparison is never true
BelowZeroUnsigned(x) == FALSE

ReadTreeSize ==
    /\ pc = "rc_tree_size"
    /\ IF PastEnd(rc, U64(8))
       THEN RcStep(Fail(rc, FILE_READ_ERROR), "rc_tree")
       ELSE LET r == Advance([Touch(rc, 8) EXCEPT
                                 !.tree_size = Read64(image, ToInt(rc.off))], U64(8))
            IN  IF BelowZeroUnsigned(r.tree_size)
                THEN RcStep(Fail(r, FILE_MAGIC_ERROR), "rc_tree")
                ELSE RcStep(r, "rc_tree")

\* the tree is not copied: huffman_tree points into the mapping
ReadTree ==
    /\ pc = "rc_tree"
    /\ IF PastEnd(rc, rc.tree_size)
       THEN RcStep(Fail(rc, FILE_READ_ERROR), "rc_data_size")
       ELSE RcStep(Advance([rc EXCEPT !.huffman_tree = <<"mmap", rc.off>>], rc.tree_size),
                   "rc_data_size")

ReadDataSize ==
    /\ pc = "rc_data_size"
    /\ IF PastEnd(rc, U64(8))
       THEN RcStep(Fail(rc, FILE_READ_ERROR), "rc_data")
       ELSE \E g \in Garbage64 :
               LET r == Advance([Touch(rc, 8) EXCEPT
                                    !.data_size = Field64(rc, image, g)], U64(8))
               IN  IF BelowZeroUnsigned(r.data_size)
                   THEN RcStep(Fail(r, FILE_MAGIC_ERROR), "rc_data")
                   ELSE RcStep(r, "rc_data")

\* compressed_bytes, the last bounds check, compressed_data and strdup(file_name)
ReadData ==
    /\ pc = "rc_data"
    /\ LET r == [rc EXCEPT !.compressed_bytes = ReaderBytes(rc.data_size)]
       IN  IF PastEnd(r, r.compressed_bytes)
           THEN RcStep(Fail(r, FILE_READ_ERROR), "rc_exit")
           ELSE \E malloc_ok \in BOOLEAN :
                   LET r2 == [r EXCEPT !.compressed_data = <<"mmap", r.off>>]
                   IN  IF ~malloc_ok
                       THEN RcStep(Fail(r2, MALLOC_ERROR), "rc_exit")
                       ELSE RcStep([r2 EXCEPT !.file_name = <<"heap", "file_name">>], "rc_exit")

\* after the loop: on an error every pointer is reset and ret returned, else
\* file_size is returned
ReadCompressedReturn ==
    /\ pc = "rc_exit"
    /\ IF rc.ret # SUCCESS
       THEN /\ rc' = [rc EXCEPT !.original_file = NULL, !.huffman_tree = NULL,
                                !.compressed_data = NULL, !.file_name = NULL]
            /\ res' = rc.ret
       ELSE /\ rc' = rc
            /\ res' = rc.file_size
    /\ pc' = "read_done"
    /\ UNCHANGED <<image, wr>>
    /\ UNCHANGED not_container

\* write_compressed: the buffer is built and handed to write_raw
WriteCompressed ==
    /\ pc = "write_compressed"
    /\ \E malloc_ok, overwrite, fopen_ok \in BOOLEAN, answer \in {"y", "n", "eof"},
          short \in 0..1 :
          IF ~malloc_ok
          THEN /\ res' = MALLOC_ERROR
               /\ image' = image
               /\ pc' = "exit"
          ELSE LET file_size == write_compressed_size(wr)
                   w == write_raw(image, write_compressed_data(wr), file_size, overwrite,
                                  answer, fopen_ok, file_size - short)
               IN  /\ res' = w.ret
                   /\ image' = w.file
                   /\ pc' = IF w.ret < 0 THEN "exit" ELSE "read_compressed"
    /\ UNCHANGED <<wr, rc>>
    /\ UNCHANGED not_container

\* largest bit length of the structures written
MaxPackBits == 9
\* most bytes cut from the end of a container file
MaxCut == 2

\* an opaque node's worth of tree bytes, and packed bytes, all distinct
TreeBytes == {<<>>, [i \in 1..SizeofNode |-> i]}
PackedOf(data_size) == [i \in 1..((data_size + 7) \div 8) |-> 160 + i]

\* the structures run_compression hands to write_compressed
Structures ==
    {[is_dir |-> d, original_size |-> os, original_file |-> nm, tree_size |-> Len(t),
      huffman_tree |-> t, data_size |-> ds, compressed_data |-> PackedOf(ds)] :
        d \in BOOLEAN, os \in {1, 70000}, nm \in {<<97>>, <<97, 46, 98>>},
        t \in TreeBytes, ds \in 0..MaxPackBits}

\* length fields a corrupt file may hold: 2^64 - 1, 2^64 - 8, 2^64 - 16,
\* 2^64 - 40, 2^63 - 1, 2^63 and 2^53 + 1 (a bit_len also 2^53 and 2^53 - 1)
HugeLengths ==
    {Neg64(1), Neg64(8), Neg64(16), Neg64(40), <<Limb - 1, Limb - 1, Limb - 1, (Limb \div 2) - 1>>,
     <<0, 0, 0, Limb \div 2>>, <<1, 0, 0, 32>>}

BadMagics == {<<72, 85, 70, 71>>, <<0, 85, 70, 70>>}

\* a well-formed container of name nm, tree t and data_size ds, and the files
\* that differ from it in the magic or in one length field
Tampered(nm, t, ds) ==
    LET packed == PackedOf(ds)
        file(m, name_len, tree_len, bit_len) ==
            Layout(m, FALSE, U64(1), name_len, nm, tree_len, t, bit_len, packed)
        nl == U64(Len(nm))
        tl == U64(Len(t))
        bl == U64(ds)
        after_tree_len == Len(t) + 8 + Len(packed)
        after_name_len == Len(nm) + 8 + after_tree_len
    IN  {file(magic, nl, tl, bl)}
        \cup {file(m, nl, tl, bl) : m \in BadMagics}
        \cup {file(magic, x, tl, bl) : x \in {U64(after_name_len + 1)} \cup HugeLengths}
        \cup {file(magic, nl, x, bl) : x \in {U64(after_tree_len + 1)} \cup HugeLengths}
        \cup {file(magic, nl, tl, x) :
                 x \in {U64(8 * Len(packed) + 1), <<0, 0, 0, 32>>,
                        <<Limb - 1, Limb - 1, Limb - 1, 31>>} \cup HugeLengths}

\* the files read_compressed is given
Buffers ==
    {<<>>} \cup
    UNION {{Take(b, Len(b) - k) : k \in 0..MaxCut, b \in Tampered(nm, t, ds)} :
              nm \in {<<>>, <<97>>}, t \in TreeBytes, ds \in {0, MaxPackBits}}

InitContainer ==
    /\ \/ /\ pc = "write_compressed"
          /\ wr \in Structures
          /\ image \in {NoImage, <<72, 85>>}
       \/ /\ pc = "read_compressed"
          /\ wr = NoStructure
          /\ image \in Buffers
    /\ rc = RcIdle
    /\ fs = FsIdle
    /\ ar = ArIdle
    /\ rs = RsIdle
    /\ cli = CliIdle
    /\ wc = WcIdle
    /\ data = <<>>
    /\ nodes = <<>>
    /\ leaf_count = 0
    /\ tree = TreeIdle
    /\ root_node = 0 - 1
    /\ cache = <<>>
    /\ comp = CompIdle
    /\ compressed_file = NoFile
    /\ dec = DecIdle
    /\ raw = <<>>
    /\ res = 0
    /\ output_file = "absent"

NextContainer ==
    \/ WriteCompressed
    \/ ReadCompressedEnter
    \/ ReadMagic
    \/ ReadIsDir
    \/ ReadOriginalSize
    \/ ReadNameLen
    \/ ReadName
    \/ ReadTreeSize
    \/ ReadTree
    \/ ReadDataSize
    \/ ReadData
    \/ ReadCompressedReturn

SpecContainer == InitContainer /\ [][NextContainer]_vars

(***************************************************************************)
(* Directory trees and the archive stream: archive_directory,               *)
(* serialize_item.                                                          *)
(***************************************************************************)
\* longest file of a directory tree
MaxFile == 14

\* the entries below the walked root "r", as sequences of one-byte names:
\* S, S/T (directories), S/f and e (regular files)
Candidates == {<<83>>, <<83, 84>>, <<83, 102>>, <<101>>}

IsDirName(n) == n \in {83, 84}

Parent(p) == SubSeq(p, 1, Len(p) - 1)

FileContents == {<<>>, <<120>>, Rep(121, MaxFile)}

\* st_mode & 0777 of the directories: 0700, 0777
Modes == {448, 511}

\* the directory trees: every entry has its parent; path |-> entry
Trees ==
    UNION {{[p \in s \cup {<<>>} |->
                IF p = <<>> \/ IsDirName(p[Len(p)])
                THEN [is_dir |-> TRUE, perms |-> mode, data |-> <<>>]
                ELSE [is_dir |-> FALSE, perms |-> 420, data |-> c[p]]] :
              c \in [{p \in s : ~IsDirName(p[Len(p)])} -> FileContents], mode \in Modes} :
           s \in {s \in SUBSET Candidates : \A p \in s : Len(p) > 1 => Parent(p) \in s}}

\* what the environment refuses during a walk of tree t: nothing, or one call
\* on one entry (stat on any, opendir on a directory, read_raw on a file);
\* the trees with a failure have directories of one mode
WalkFailures(t) ==
    {<<"none">>} \cup
    (IF t[<<>>].perms # 448 THEN {}
     ELSE {<<"stat", p>> : p \in DOMAIN t}
            \cup {<<"opendir", p>> : p \in {q \in DOMAIN t : t[q].is_dir}}
            \cup {<<"read_raw", p>> : p \in {q \in DOMAIN t : ~t[q].is_dir}})

\* the path string of an entry: snprintf("%s/%s", path, d_name) from the root "r"
RECURSIVE PathString(_)
PathString(p) ==
    IF p = <<>> THEN <<114>> ELSE PathString(Parent(p)) \o <<47, p[Len(p)]>>

\* readdir: the entries of directory p, in ascending or descending order of name
Listing(t, order, p) ==
    LET kids == {q \in DOMAIN t : Len(q) = Len(p) + 1 /\ Parent(q) = p}
        n == Cardinality(kids)
    IN  CHOOSE s \in [1..n -> kids] :
           \A i, j \in 1..n :
              i < j => IF order = "asc" THEN s[i][Len(s[i])] < s[j][Len(s[j])]
                       ELSE s[i][Len(s[i])] > s[j][Len(s[j])]

\* k bytes of an integer, least significant first (two's complement)
RECURSIVE LEs(_, _)
LEs(n, k) == IF k = 0 THEN <<>> ELSE <<n % 256>> \o LEs(n \div 256, k - 1)

\* a pointer into the mapped temporary file, and pointer + n
Ptr(off) == <<"map", off>>
PtrAdd(p, n) == <<"map", p[2] + n>>

\* memcpy of bytes to the mapping at a pointer; a write outside it is recorded.
\* records lists what was emitted: <<offset, length, bytes>>
Store(st, ptr, bytes) ==
    [st EXCEPT
       !.buf = [i \in 1..Len(@) |->
                   IF ptr[2] < i /\ i <= ptr[2] + Len(bytes) THEN bytes[i - ptr[2]] ELSE @[i]],
       !.overflow = @ \/ ptr[2] + Len(bytes) > Len(st.buf),
       !.records = Append(@, <<ptr[2], Len(bytes), bytes>>)]

\* serialize_item: the return value and the walk state after it. A size_t is
\* held as the integer congruent to it modulo 2^64 nearest to 0, so
\* file_size > 0 is file_size # 0.
serialize_item(item, out_data, st) ==
    LET path_len == Len(item.path) + 1
        item_size == 1 + (IF item.is_dir THEN 4 + path_len
                          ELSE 8 + path_len + item.file_size)
        total_size == 8 + item_size
        head == LEs(item_size, 8) \o <<IF item.is_dir THEN 1 ELSE 0>>
                  \o (IF item.is_dir THEN LEs(item.perms, 4) ELSE LEs(item.file_size, 8))
                  \o item.path \o <<0>>
    IN  IF out_data = NULL THEN [ret |-> total_size, st |-> st]
        ELSE IF item.is_dir \/ item.file_size = 0
        THEN [ret |-> total_size, st |-> Store(st, out_data, head)]
        ELSE IF item.file_data = NULL
        THEN [ret |-> total_size, st |-> [Store(st, out_data, head) EXCEPT !.segv = TRUE]]
        ELSE [ret |-> total_size, st |-> Store(st, out_data, head \o item.file_data[2])]

\* the walk state at the start of a pass over a mapping buf
Walk0(buf) ==
    [archive_size |-> 0, data_size |-> 0, buf |-> buf, overflow |-> FALSE,
     segv |-> FALSE, records |-> <<>>]

\* (*archive_size)++, serialize_item, *data_size += bytes_written and
\* current_ptr += bytes_written for one item
Emit(item, loc) ==
    LET s == serialize_item(item, loc.current_ptr,
                            [loc.st EXCEPT !.archive_size = @ + 1])
    IN  [loc EXCEPT !.st = [s.st EXCEPT !.data_size = @ + s.ret],
                    !.current_ptr = IF @ # NULL THEN PtrAdd(@, s.ret) ELSE @]

\* read_raw on a regular file: its size, or EMPTY_FILE (and no data) when empty
ReadRawSize(bytes) == IF bytes = <<>> THEN EMPTY_FILE ELSE Len(bytes)

\* the call kind ("stat", "opendir", "read_raw") fails on entry p
Fails(kind, p) == fs.fail[1] = kind /\ fs.fail[2] = p

\* archive_directory: the walk of directory p of the tree in fs with the
\* shared counters in st, writing at out_data (NULL: sizes only). Once the
\* process has faulted (st.segv) nothing further happens.
RECURSIVE archive_directory(_, _, _)
RECURSIVE ArchiveEntries(_, _, _, _, _)
ArchiveEntries(p, kids, k, loc, out_data) ==
    IF loc.st.segv \/ loc.result < 0 \/ k > Len(kids)
    THEN [result |-> IF loc.result < 0 THEN loc.result ELSE loc.dir_size, st |-> loc.st]
    ELSE
      LET q == kids[k]
          newpath == PathString(q)
      IN  IF Fails("stat", q) THEN ArchiveEntries(p, kids, k + 1, loc, out_data)
          ELSE IF fs.tree[q].is_dir
          THEN LET subdir == [is_dir |-> TRUE, path |-> newpath, perms |-> fs.tree[q].perms]
                   a == Emit(subdir, loc)
                   sub == archive_directory(q, a.st, a.current_ptr)
               IN  IF sub.result < 0
                   THEN ArchiveEntries(p, kids, k + 1,
                           [a EXCEPT !.st = sub.st, !.result = sub.result], out_data)
                   ELSE ArchiveEntries(p, kids, k + 1,
                           [a EXCEPT !.st = sub.st,
                                     !.dir_size = @ + sub.result,
                                     !.current_ptr =
                                          IF @ # NULL THEN PtrAdd(out_data, sub.st.data_size)
                                          ELSE @],
                           out_data)
          ELSE LET opened == ~Fails("read_raw", q)
                   size == IF opened THEN ReadRawSize(fs.tree[q].data) ELSE FILE_READ_ERROR
                   file == [is_dir |-> FALSE, path |-> newpath, file_size |-> size,
                            file_data |-> IF fs.tree[q].data = <<>> \/ ~opened THEN NULL
                                          ELSE <<"mmap", fs.tree[q].data>>]
               IN  IF BelowZeroUnsigned(file.file_size)
                   THEN IF file.file_size = EMPTY_FILE
                        THEN ArchiveEntries(p, kids, k + 1,
                                Emit([file EXCEPT !.file_size = 0, !.file_data = NULL], loc),
                                out_data)
                        ELSE ArchiveEntries(p, kids, k + 1,
                                [loc EXCEPT !.result = FILE_READ_ERROR], out_data)
                   ELSE ArchiveEntries(p, kids, k + 1,
                           Emit(file, [loc EXCEPT !.dir_size = @ + file.file_size]),
                           out_data)

\* the walk without the record of the walked root
archive_directory_without_root(p, st, out_data) ==
    ArchiveEntries(p, Listing(fs.tree, fs.order, p), 1,
                   [st |-> [st EXCEPT !.archive_size = @ + 1], current_ptr |-> out_data,
                    dir_size |-> 0, result |-> 0],
                   out_data)

archive_directory(p, st, out_data) ==
    LET loc0 == [st |-> st, current_ptr |-> out_data, dir_size |-> 0, result |-> 0]
        root == [is_dir |-> TRUE, path |-> PathString(p), perms |-> fs.tree[p].perms]
        loc1 == IF st.archive_size = 0 THEN Emit(root, loc0) ELSE loc0
    IN  IF st.archive_size = 0 /\ Fails("stat", p)
        THEN [result |-> DIRECTORY_ERROR, st |-> st]
        ELSE IF Fails("opendir", p) THEN [result |-> DIRECTORY_ERROR, st |-> loc1.st]
        ELSE ArchiveEntries(p, Listing(fs.tree, fs.order, p), 1, loc1, out_data)

(***************************************************************************)
(* Restoring: deserialize_item, extract_directory.                          *)
(***************************************************************************)
\* the long a word holds, for words from -2^31 up to 2^31 - 1; (int) of a long
\* is this value of its low 32 bits
Low32(a) ==
    IF a[2] < Limb \div 2 THEN a[1] + Limb * a[2]
    ELSE (a[1] - Limb) + Limb * (a[2] - (Limb - 1))

\* a - n modulo 2^64, for a constant 0 < n < 2^16
Sub64(a, n) == Add64(a, Neg64(n))

\* a - b modulo 2^64
Minus64(a, b) ==
    Add64(a, Add64(<<Limb - 1 - b[1], Limb - 1 - b[2], Limb - 1 - b[3], Limb - 1 - b[4]>>,
                   U64(1)))

\* the bytes [o, o + n) of the stream; a byte past its end is what the page
\* holds after the file (zero) unless the read faults
Fetch(in, o, n) == [i \in 1..n |-> IF o + i <= Len(in) THEN in[o + i] ELSE 0]

PastStream(in, o, n) == n > 0 /\ o + n > Len(in)

\* the four bytes of an int
Read32(bytes) ==
    Low32(<<bytes[1] + 256 * bytes[2], bytes[3] + 256 * bytes[4], 0, 0>>)

\* the C string held in a copied path: the bytes before the first NUL
Terminated(bytes) == \E i \in 1..Len(bytes) : bytes[i] = 0

CString(bytes) ==
    IF Terminated(bytes)
    THEN Take(bytes, (CHOOSE i \in 1..Len(bytes) :
                         bytes[i] = 0 /\ \A j \in 1..(i - 1) : bytes[j] # 0) - 1)
    ELSE bytes

NoItem == [is_dir |-> FALSE, path |-> NULL, perms |-> 0, file_size |-> U64(0),
           file_data |-> NULL]

\* deserialize_item on the stream at an offset: the value returned (a long,
\* as a word), the item filled in, and whether a read went past the stream
deserialize_item(in, offset, remaining_size) ==
    IF remaining_size < 8 THEN [ret |-> U64(0), item |-> NoItem, past |-> FALSE]
    ELSE
      LET item_size == Read64(in, offset)
          is_dir == Fetch(in, offset + 8, 1)[1] # 0
          past1 == PastStream(in, offset + 8, 1)
      IN  IF Lts64(U64(remaining_size), Add64(U64(8), item_size))
          THEN [ret |-> Neg64(0 - FILE_READ_ERROR), item |-> NoItem, past |-> FALSE]
          ELSE IF is_dir
          THEN LET perms == Read32(Fetch(in, offset + 9, 4))
                   path_len == Sub64(Sub64(item_size, 1), 4)
                   past2 == past1 \/ PastStream(in, offset + 9, 4)
                   it == [NoItem EXCEPT !.is_dir = TRUE, !.perms = perms]
               IN  IF ~Small(path_len)
                   THEN [ret |-> Neg64(0 - MALLOC_ERROR), item |-> it, past |-> past2]
                   ELSE [ret |-> Add64(U64(8), item_size),
                         item |-> [it EXCEPT !.path =
                                      <<"heap", Fetch(in, offset + 13, ToInt(path_len))>>],
                         past |-> past2 \/ PastStream(in, offset + 13, ToInt(path_len))]
          ELSE LET file_size == Read64(Fetch(in, offset + 9, 8), 0)
                   path_len == Minus64(Sub64(Sub64(item_size, 1), 8), file_size)
                   past2 == past1 \/ PastStream(in, offset + 9, 8)
                   it == [NoItem EXCEPT !.file_size = file_size]
               IN  IF ~Small(path_len)
                   THEN [ret |-> Neg64(0 - MALLOC_ERROR), item |-> it, past |-> past2]
                   ELSE
                     LET n == ToInt(path_len)
                         it2 == [it EXCEPT !.path = <<"heap", Fetch(in, offset + 17, n)>>]
                         past3 == past2 \/ PastStream(in, offset + 17, n)
                     IN  IF file_size = U64(0)
                         THEN [ret |-> Add64(U64(8), item_size), item |-> it2,
                               past |-> past3]
                         ELSE IF ~Small(file_size)
                         THEN [ret |-> Neg64(0 - MALLOC_ERROR), item |-> it2,
                               past |-> past3]
                         ELSE [ret |-> Add64(U64(8), item_size),
                               item |-> [it2 EXCEPT !.file_data =
                                   <<"heap", Fetch(in, offset + 17 + n, ToInt(file_size))>>],
                               past |-> past3
                                   \/ PastStream(in, offset + 17 + n, ToInt(file_size))]

\* a & ~b on the nine permission bits
RECURSIVE AndNot(_, _, _)
AndNot(a, b, k) ==
    IF k < 0 THEN 0
    ELSE (IF TestBit(a, k) /\ ~TestBit(b, k) THEN Pow2(k) ELSE 0) + AndNot(a, b, k - 1)

\* a path without a trailing '/', and the directory that holds it ("." when
\* the path has no '/')
Norm(p) == IF Len(p) > 1 /\ p[Len(p)] = 47 THEN Take(p, Len(p) - 1) ELSE p

Dirname(p) ==
    IF \E i \in 1..Len(p) : p[i] = 47
    THEN Take(p, (CHOOSE i \in 1..Len(p) :
                     p[i] = 47 /\ \A j \in (i + 1)..Len(p) : p[j] # 47) - 1)
    ELSE <<46>>

IsDirectory(out, p) == p \in DOMAIN out /\ out[p].is_dir

Put(out, p, node) == [x \in DOMAIN out \cup {p} |-> IF x = p THEN node ELSE out[x]]

\* a mkdir for which a path that exists is an error like any other
mkdir_exists_is_error(w, path, mode) ==
    IF Norm(path) \in DOMAIN w.out \/ ~IsDirectory(w.out, Dirname(Norm(path)))
    THEN [ret |-> 0 - 1, w |-> [w EXCEPT !.errno = ENOENT]]
    ELSE [ret |-> 0,
          w |-> [w EXCEPT !.out = Put(@, Norm(path),
                                      [is_dir |-> TRUE,
                                       perms |-> AndNot(mode % 512, w.umask, 8),
                                       data |-> <<>>]),
                          !.made = @ \cup {Norm(path)}]]

\* mkdir(path, mode) in the world w: the output tree, errno and the umask
mkdir(w, path, mode) ==
    LET p == Norm(path)
    IN  IF p \in DOMAIN w.out THEN [ret |-> 0 - 1, w |-> [w EXCEPT !.errno = EEXIST]]
        ELSE IF ~IsDirectory(w.out, Dirname(p))
        THEN [ret |-> 0 - 1, w |-> [w EXCEPT !.errno = ENOENT]]
        ELSE [ret |-> 0,
              w |-> [w EXCEPT !.out = Put(@, p, [is_dir |-> TRUE,
                                                 perms |-> AndNot(mode % 512, w.umask, 8),
                                                 data |-> <<>>]),
                              !.made = @ \cup {p}]]

\* the marker write_raw is given for a file that exists already
Present == <<"old", "file">>

\* extract_directory: the value returned and the world after it
extract_directory(path, item, force, no_preserve_perms, w, answer) ==
    LET dir == IF path = NULL THEN <<46>> ELSE path[2]
        item_path == CString(item.path[2])
        full_path == Norm(dir \o <<47>> \o item_path)
    IN  IF item.is_dir
        THEN LET m == mkdir(w, full_path, item.perms)
             IN  IF m.ret # 0 /\ m.w.errno # EEXIST THEN [ret |-> MKDIR_ERROR, w |-> m.w]
                 ELSE IF no_preserve_perms /\ m.w.errno = EEXIST
                 THEN [ret |-> SUCCESS,
                       w |-> [m.w EXCEPT !.out[full_path].perms = item.perms % 4096,
                                         !.chmodded = @ \cup {full_path}]]
                 ELSE [ret |-> SUCCESS, w |-> m.w]
        ELSE LET fopen_ok == IsDirectory(w.out, Dirname(full_path))
                               /\ ~IsDirectory(w.out, full_path)
                 exists == full_path \in DOMAIN w.out
                 perms == IF exists THEN w.out[full_path].perms ELSE AndNot(438, w.umask, 8)
             IN  IF item.file_size = U64(0)
                 THEN IF ~fopen_ok THEN [ret |-> FILE_WRITE_ERROR, w |-> w]
                      ELSE [ret |-> SUCCESS,
                            w |-> [w EXCEPT !.out = Put(@, full_path,
                                      [is_dir |-> FALSE, perms |-> perms, data |-> <<>>])]]
                 ELSE IF ~BelowZeroUnsigned(item.file_size)
                 THEN IF item.file_data = NULL THEN [ret |-> FILE_WRITE_ERROR, w |-> w]
                      ELSE LET r == write_raw(IF exists THEN Present ELSE NoImage,
                                              item.file_data[2], Len(item.file_data[2]),
                                              force, answer, fopen_ok,
                                              Len(item.file_data[2]))
                           IN  IF r.ret < 0 THEN [ret |-> FILE_WRITE_ERROR, w |-> w]
                               ELSE [ret |-> SUCCESS,
                                     w |-> [w EXCEPT !.out = Put(@, full_path,
                                               [is_dir |-> FALSE, perms |-> perms,
                                                data |-> r.file])]]
                 ELSE [ret |-> FILE_READ_ERROR, w |-> w]

(***************************************************************************)
(* The steps of prepare_directory and restore_directory.                    *)
(***************************************************************************)
\* prepare_directory leaving the directory where archiving has put it
chdir_back_skipped(a, sep, ok) == a

\* if (sep != NULL) chdir(current_path): back to the directory of the entry
\* when the call succeeds
chdir_back(a, sep, ok) ==
    IF ~sep THEN a
    ELSE IF ok THEN [a EXCEPT !.cwd = "start"]
    ELSE [a EXCEPT !.back_failed = TRUE]

\* everything but pc, res and the state of the archiver
not_archive == <<data, nodes, leaf_count, tree, root_node, cache, comp,
                 compressed_file, dec, raw, output_file, image, wr, rc, cli, wc>>

\* prepare_directory up to the sizing pass: getcwd, chdir to the parent when
\* input_file has a separator, archive_directory with out_data NULL
PrepareSize ==
    /\ pc = "prepare_directory"
    /\ \E sep \in BOOLEAN :
       \E entry \in IF sep THEN {"ok", "getcwd", "malloc", "chdir"} ELSE {"ok", "getcwd"} :
         LET sized == archive_directory(<<>>, Walk0(NULL), NULL)
             entered == [ar EXCEPT !.sep = sep, !.cwd = IF sep THEN "parent" ELSE @]
         IN  IF entry # "ok"
             THEN /\ ar' = [ar EXCEPT !.sep = sep, !.env_failed = TRUE]
                  /\ res' = 0 - 1
                  /\ pc' = "prepared"
             ELSE IF sized.result < 0
             THEN /\ \E back_ok \in IF sep THEN BOOLEAN ELSE {TRUE} :
                        ar' = chdir_back([entered EXCEPT !.fd = sized.result,
                                                         !.dir_size = sized.result],
                                         sep, back_ok)
                  /\ res' = sized.result
                  /\ pc' = "prepared"
             ELSE /\ ar' = [entered EXCEPT !.dir_size = sized.result,
                                           !.data_len = sized.st.data_size]
                  /\ pc' = "prepare_tmpfile"
                  /\ UNCHANGED res
    /\ UNCHANGED <<fs, rs>>
    /\ UNCHANGED not_archive

\* create_mmapable_tmpfile and write_raw_to_fd: the temporary file of
\* data_len zero bytes and its mapping
PrepareTmpfile ==
    /\ pc = "prepare_tmpfile"
    /\ \E tmp_ok, map_ok \in BOOLEAN :
         IF tmp_ok /\ map_ok
         THEN /\ ar' = [ar EXCEPT !.fd = 3, !.map = Rep(0, ar.data_len)]
              /\ pc' = "prepare_serialize"
              /\ UNCHANGED res
         ELSE /\ \E back_ok \in IF ar.sep THEN BOOLEAN ELSE {TRUE} :
                    ar' = chdir_back([ar EXCEPT !.fd = FILE_WRITE_ERROR,
                                                !.env_failed = TRUE],
                                     ar.sep, back_ok)
              /\ res' = FILE_WRITE_ERROR
              /\ pc' = "prepared"
    /\ UNCHANGED <<fs, rs>>
    /\ UNCHANGED not_archive

\* the serializing pass and the rest of prepare_directory. A copy from a NULL
\* source faults; a write past the mapping faults or lands in the slack of
\* its last page.
PrepareSerialize ==
    /\ pc = "prepare_serialize"
    /\ LET done == archive_directory(<<>>, Walk0(ar.map), Ptr(0))
           written == [ar EXCEPT !.map = done.st.buf,
                                 !.overflow = done.st.overflow,
                                 !.records = done.st.records,
                                 !.archive_size = done.st.archive_size]
       IN  \E slack \in IF done.st.overflow THEN BOOLEAN ELSE {TRUE},
              msync_ok \in BOOLEAN,
              chdir_ok \in IF ar.sep THEN BOOLEAN ELSE {TRUE} :
             IF done.st.segv \/ ~slack
             THEN /\ ar' = written
                  /\ pc' = "fault"
                  /\ UNCHANGED res
             ELSE IF ~msync_ok
             THEN /\ ar' = chdir_back([written EXCEPT !.fd = FILE_WRITE_ERROR,
                                                      !.env_failed = TRUE],
                                      ar.sep, chdir_ok)
                  /\ res' = FILE_WRITE_ERROR
                  /\ pc' = "prepared"
             ELSE IF ~chdir_ok
             THEN /\ ar' = chdir_back([written EXCEPT !.fd = DIRECTORY_ERROR,
                                                      !.directory_size = ar.dir_size,
                                                      !.total_size = ar.data_len,
                                                      !.env_failed = TRUE],
                                      ar.sep, FALSE)
                  /\ res' = DIRECTORY_ERROR
                  /\ pc' = "prepared"
             ELSE /\ ar' = chdir_back([written EXCEPT !.directory_size = ar.dir_size,
                                                      !.total_size = ar.data_len],
                                      ar.sep, TRUE)
                  /\ res' = ar.fd
                  /\ pc' = "prepared"
    /\ UNCHANGED <<fs, rs>>
    /\ UNCHANGED not_archive

\* the world a restore starts in: nothing there ("empty"), the output
\* directory there ("output"), or the restored root there as well ("root"),
\* with mode 0755
World(output, mask, start) ==
    LET node == [is_dir |-> TRUE, perms |-> 493, data |-> <<>>]
        dot == [p \in {<<46>>} |-> node]
        dir == IF output = NULL THEN <<46>> ELSE output[2]
        here == Put(dot, dir, node)
    IN  [out |-> IF start = "empty" THEN dot
                 ELSE IF start = "output" THEN here
                 ELSE Put(here, dir \o <<47, 114>>, node),
         errno |-> 0, umask |-> mask, chmodded |-> {}, made |-> {}]

\* restore_directory up to its loop, on the stream prepare_directory left in
\* the temporary file by a walk that met no failing entry
RestoreEnter ==
    /\ pc = "prepared"
    /\ res >= 0
    /\ fs.fail = <<"none">>
    /\ \E output \in {NULL, <<"argv", <<111>>>>}, force, no_preserve_perms \in BOOLEAN,
          mask \in {0, 18}, start \in {"empty", "output", "root"} :
         LET w == World(output, mask, start)
             m == IF output # NULL THEN mkdir(w, output[2], DIR_MODE) ELSE [ret |-> 0, w |-> w]
             entered == [rs EXCEPT !.temp_data = ar.map, !.offset = 0,
                                   !.output_file = output, !.force = force,
                                   !.no_preserve_perms = no_preserve_perms,
                                   !.start = start, !.w = m.w]
         IN  IF m.ret # 0 /\ m.w.errno # EEXIST
             THEN /\ rs' = entered
                  /\ res' = MKDIR_ERROR
                  /\ pc' = "restored"
             ELSE /\ rs' = entered
                  /\ pc' = "restore_loop"
                  /\ UNCHANGED res
    /\ UNCHANGED <<fs, ar>>
    /\ UNCHANGED not_archive

\* one turn of the loop of restore_directory: deserialize_item, then
\* extract_directory. A read past the stream faults or finds the zero bytes
\* that fill its last page; strlen of a path without a NUL faults or stops at
\* a NUL right behind it.
RestoreItem ==
    /\ pc = "restore_loop"
    /\ rs.offset < Len(rs.temp_data)
    /\ LET d == deserialize_item(rs.temp_data, rs.offset, Len(rs.temp_data) - rs.offset)
           extracts == ~IsNeg64(d.ret) /\ d.ret # U64(0)
           read == [rs EXCEPT !.past = @ \/ d.past]
       IN  \E slack \in IF d.past THEN BOOLEAN ELSE {TRUE},
              stops \in IF extracts /\ ~Terminated(d.item.path[2]) THEN BOOLEAN ELSE {TRUE},
              answer \in IF extracts /\ ~d.item.is_dir /\ ~rs.force
                         THEN {"y", "n", "eof"} ELSE {"y"} :
             IF ~slack
             THEN /\ pc' = "fault"
                  /\ rs' = read
                  /\ UNCHANGED res
             ELSE IF IsNeg64(d.ret)
             THEN /\ res' = Low32(d.ret)
                  /\ pc' = "restored"
                  /\ rs' = read
             ELSE IF d.ret = U64(0)
             THEN /\ res' = SUCCESS
                  /\ pc' = "restored"
                  /\ rs' = read
             ELSE IF ~stops
             THEN /\ pc' = "fault"
                  /\ rs' = read
                  /\ UNCHANGED res
             ELSE LET e == extract_directory(rs.output_file, d.item, rs.force,
                                             rs.no_preserve_perms, rs.w, answer)
                  IN  IF e.ret # 0
                      THEN /\ rs' = [read EXCEPT !.w = e.w]
                           /\ res' = e.ret
                           /\ pc' = "restored"
                      ELSE /\ rs' = [read EXCEPT !.w = e.w, !.offset = @ + ToInt(d.ret),
                                               !.items = @ + 1]
                           /\ pc' = "restore_loop"
                           /\ UNCHANGED res
    /\ UNCHANGED <<fs, ar>>
    /\ UNCHANGED not_archive

\* the loop of restore_directory ends at the end of the stream
RestoreReturn ==
    /\ pc = "restore_loop"
    /\ rs.offset >= Len(rs.temp_data)
    /\ res' = SUCCESS
    /\ pc' = "restored"
    /\ UNCHANGED <<fs, ar, rs>>
    /\ UNCHANGED not_archive

InitArchive ==
    /\ pc = "prepare_directory"
    /\ fs \in UNION {[tree : {t}, order : {"asc", "desc"}, fail : WalkFailures(t)] :
                        t \in Trees}
    /\ ar = ArIdle
    /\ rs = RsIdle
    /\ cli = CliIdle
    /\ wc = WcIdle
    /\ res = 0
    /\ image = NoImage
    /\ wr = NoStructure
    /\ rc = RcIdle
    /\ data = <<>>
    /\ nodes = <<>>
    /\ leaf_count = 0
    /\ tree = TreeIdle
    /\ root_node = 0 - 1
    /\ cache = <<>>
    /\ comp = CompIdle
    /\ compressed_file = NoFile
    /\ dec = DecIdle
    /\ raw = <<>>
    /\ output_file = "absent"

NextArchive ==
    \/ PrepareSize
    \/ PrepareTmpfile
    \/ PrepareSerialize
    \/ RestoreEnter
    \/ RestoreItem
    \/ RestoreReturn

SpecArchive == InitArchive /\ [][NextArchive]_vars

(***************************************************************************)
(* The command line: parse_arguments and main.                              *)
(***************************************************************************)
\* most arguments after the program name
MaxArgs == 3

\* the options ("-z" stands for an unknown one) and the paths: a regular
\* file, an empty regular file, a directory, a name that does not exist
Options == {"-h", "-c", "-x", "-f", "-r", "-o", "-z"}
Paths == {"in", "empty", "dir", "missing"}

\* the state main and parse_arguments never touch
not_main == <<data, nodes, leaf_count, tree, root_node, cache, comp,
              compressed_file, dec, raw, output_file, image, wr, rc, wc>>

Argvs == UNION {[1..n -> Options \cup Paths] : n \in 0..MaxArgs}

\* what stat finds at a path
KindOf(path) ==
    IF path \in {"in", "empty"} THEN "file" ELSE IF path = "dir" THEN "dir" ELSE "none"

\* return of parse_arguments
ParseReturn(code) ==
    /\ cli' = [cli EXCEPT !.parse_result = code]
    /\ pc' = "parsed"

\* one turn of the loop of parse_arguments
ParseArgument ==
    /\ pc = "parse_arguments"
    /\ cli.i <= Len(cli.argv)
    /\ LET tok == cli.argv[cli.i]
           next(a) == /\ cli' = [cli EXCEPT !.args = a, !.i = @ + 1]
                      /\ pc' = pc
       IN  IF tok \in Options
           THEN IF tok = "-h" THEN ParseReturn(HELP_REQUESTED)
                ELSE IF tok = "-c" THEN next([cli.args EXCEPT !.compress_mode = TRUE])
                ELSE IF tok = "-x" THEN next([cli.args EXCEPT !.extract_mode = TRUE])
                ELSE IF tok = "-f" THEN next([cli.args EXCEPT !.force = TRUE])
                ELSE IF tok = "-r" THEN next([cli.args EXCEPT !.directory = TRUE])
                ELSE IF tok = "-o"
                THEN IF cli.i + 1 <= Len(cli.argv)
                     THEN /\ cli' = [cli EXCEPT !.args.output_file =
                                                    <<"argv", cli.argv[cli.i + 1]>>,
                                                !.i = @ + 2]
                          /\ pc' = pc
                     ELSE ParseReturn(EINVAL)
                ELSE ParseReturn(EINVAL)
           ELSE IF cli.args.input_file = NULL
                THEN next([cli.args EXCEPT !.input_file = <<"argv", tok>>])
                ELSE ParseReturn(EINVAL)
    /\ UNCHANGED res
    /\ UNCHANGED <<fs, ar, rs>>
    /\ UNCHANGED not_main

\* the checks after the loop, without the one of the two modes
AfterLoopNoModeCheck(args) ==
    IF args.input_file = NULL THEN EINVAL
    ELSE IF KindOf(args.input_file[2]) = "none" THEN FILE_READ_ERROR
    ELSE SUCCESS

\* the checks of parse_arguments after its loop
AfterLoop(args) ==
    IF args.input_file = NULL THEN EINVAL
    ELSE IF KindOf(args.input_file[2]) = "none" THEN FILE_READ_ERROR
    ELSE IF args.compress_mode /\ args.extract_mode THEN EINVAL
    ELSE SUCCESS

\* parse_arguments after its loop
ParseFinish ==
    /\ pc = "parse_arguments"
    /\ cli.i > Len(cli.argv)
    /\ ParseReturn(AfterLoop(cli.args))
    /\ UNCHANGED res
    /\ UNCHANGED <<fs, ar, rs>>
    /\ UNCHANGED not_main

\* return of main
Exit(code) ==
    /\ res' = code
    /\ pc' = "exit"

\* the directory flag left as the command line gave it
DirectoryFlagKept(directory, kind) == directory

\* the directory flag after main has looked at the input: -r on a regular
\* file is dropped
DirectoryFlag(directory, kind) == directory /\ kind # "file"

\* main from the return of parse_arguments to the choice of the mode
MainParsed ==
    /\ pc = "parsed"
    /\ \E stat_ok \in BOOLEAN :
         IF cli.parse_result = HELP_REQUESTED THEN Exit(SUCCESS) /\ UNCHANGED cli
         ELSE IF cli.parse_result = FILE_READ_ERROR THEN Exit(ENOENT) /\ UNCHANGED cli
         ELSE IF cli.parse_result # SUCCESS THEN Exit(cli.parse_result) /\ UNCHANGED cli
         ELSE IF ~stat_ok
         THEN Exit(0 - 1) /\ cli' = [cli EXCEPT !.env_failed = TRUE]
         ELSE IF cli.args.directory
         THEN /\ cli' = [cli EXCEPT !.args.directory =
                                        DirectoryFlag(TRUE, KindOf(cli.args.input_file[2]))]
              /\ pc' = "main_mode"
              /\ UNCHANGED res
         ELSE IF KindOf(cli.args.input_file[2]) = "dir" THEN Exit(EISDIR) /\ UNCHANGED cli
         ELSE /\ pc' = "main_mode"
              /\ UNCHANGED <<cli, res>>
    /\ UNCHANGED <<fs, ar, rs>>
    /\ UNCHANGED not_main

\* the values run_compression returns, by the place it returns from
RunCompressionReturns ==
    [generate_output_file |-> ENOMEM, malloc |-> MALLOC_ERROR, construct_tree |-> TREE_ERROR,
     compress |-> MALLOC_ERROR, write_compressed |-> SUCCESS, done |-> SUCCESS]

\* main in compress mode
MainCompress ==
    /\ pc = "main_mode"
    /\ cli.args.compress_mode
    /\ \E prepared, read \in BOOLEAN, from \in DOMAIN RunCompressionReturns, malloc_ok \in BOOLEAN :
         LET failed(code) == Exit(code) /\ cli' = [cli EXCEPT !.env_failed = TRUE]
             read_res == IF cli.args.directory
                         THEN IF read THEN 1
                              ELSE IF malloc_ok THEN FILE_READ_ERROR ELSE MALLOC_ERROR
                         ELSE IF cli.args.input_file[2] = "empty" THEN EMPTY_FILE
                              ELSE IF read THEN 1 ELSE FILE_READ_ERROR
         IN  IF cli.args.directory /\ ~prepared THEN failed(FILE_WRITE_ERROR)
             ELSE IF read_res = EMPTY_FILE THEN Exit(read_res) /\ UNCHANGED cli
             ELSE IF read_res < 0 THEN failed(read_res)
             ELSE /\ Exit(RunCompressionReturns[from])
                  /\ cli' = [cli EXCEPT !.ran = "run_compression",
                                        !.is_dir = cli.args.directory,
                                        !.written = from = "done",
                                        !.env_failed = from # "done"]
    /\ UNCHANGED <<fs, ar, rs>>
    /\ UNCHANGED not_main

\* the values run_decompression and restore_directory return on a failure
RunDecompressionFailures == {ENOMEM, EBADF, EIO, EINVAL, ECANCELED}

RestoreDirectoryFailures == {FILE_READ_ERROR, MKDIR_ERROR, MALLOC_ERROR, FILE_WRITE_ERROR}

\* main in extract mode
MainExtract ==
    /\ pc = "main_mode"
    /\ ~cli.args.compress_mode
    /\ cli.args.extract_mode
    /\ \E decomp_res \in RunDecompressionFailures \cup {0}, is_dir, mapped \in BOOLEAN,
          restored \in RestoreDirectoryFailures \cup {SUCCESS} :
         /\ cli' = [cli EXCEPT !.ran = "run_decompression",
                               !.is_dir = decomp_res = 0 /\ is_dir,
                               !.env_failed = decomp_res # 0 \/ (is_dir /\ ~mapped)]
         /\ IF decomp_res # 0 THEN Exit(decomp_res)
            ELSE IF ~is_dir THEN Exit(0)
            ELSE IF ~mapped THEN Exit(FILE_WRITE_ERROR)
            ELSE Exit(restored)
    /\ UNCHANGED <<fs, ar, rs>>
    /\ UNCHANGED not_main

\* main when no mode was given
MainNoMode ==
    /\ pc = "main_mode"
    /\ ~cli.args.compress_mode
    /\ ~cli.args.extract_mode
    /\ Exit(EINVAL)
    /\ UNCHANGED cli
    /\ UNCHANGED <<fs, ar, rs>>
    /\ UNCHANGED not_main

InitMain ==
    /\ pc = "parse_arguments"
    /\ cli \in {[CliIdle EXCEPT !.argv = a] : a \in Argvs}
    /\ wc = WcIdle
    /\ fs = FsIdle
    /\ ar = ArIdle
    /\ rs = RsIdle
    /\ res = 0
    /\ image = NoImage
    /\ wr = NoStructure
    /\ rc = RcIdle
    /\ data = <<>>
    /\ nodes = <<>>
    /\ leaf_count = 0
    /\ tree = TreeIdle
    /\ root_node = 0 - 1
    /\ cache = <<>>
    /\ comp = CompIdle
    /\ compressed_file = NoFile
    /\ dec = DecIdle
    /\ raw = <<>>
    /\ output_file = "absent"

NextMain ==
    \/ ParseArgument
    \/ ParseFinish
    \/ MainParsed
    \/ MainCompress
    \/ MainExtract
    \/ MainNoMode

SpecMain == InitMain /\ [][NextMain]_vars

(***************************************************************************)
(* Properties of the directory archive (SpecArchive).                       *)
(***************************************************************************)
\* the directory a restore extracts into, with its '/'
RestorePrefix == (IF rs.output_file = NULL THEN <<46>> ELSE rs.output_file[2]) \o <<47>>

\* the relative paths found below it
RestoredPaths ==
    {SubSeq(k, Len(RestorePrefix) + 1, Len(k)) :
        k \in {k \in DOMAIN rs.w.out :
                  Len(k) > Len(RestorePrefix) /\ Take(k, Len(RestorePrefix)) = RestorePrefix}}

\* the restored tree is the archived one: the same relative paths, kinds and
\* file contents, and the directories' permission bits where the restore
\* could set them (nothing masked; the directory new, or chmod requested)
RoundTripped ==
    /\ RestoredPaths = {PathString(p) : p \in DOMAIN fs.tree}
    /\ \A p \in DOMAIN fs.tree :
         LET n == rs.w.out[RestorePrefix \o PathString(p)]
         IN  /\ n.is_dir = fs.tree[p].is_dir
             /\ n.data = fs.tree[p].data
             /\ (n.is_dir /\ rs.w.umask = 0 /\ (rs.start # "root" \/ rs.no_preserve_perms))
                   => n.perms = fs.tree[p].perms

\* C2: for every directory tree (nested subdirectories, empty files, empty
\* directories, any listing order) prepare_directory, when every entry can be
\* read and the temporary file can be made, returns a descriptor without
\* faulting, and restore_directory on the stream it produced returns SUCCESS
\* having recreated exactly the same relative paths, file contents and (where
\* requested) permission bits.
C2_DirectoryRoundTrip ==
    fs.fail = <<"none">> =>
        /\ pc # "fault"
        /\ (pc = "prepared" /\ ~ar.env_failed) => res >= 0
        /\ pc = "restored" => (res = SUCCESS /\ RoundTripped)

\* what holds of the round trip: it succeeds for the trees with no empty
\* file and no entry listed after a subdirectory of a subdirectory
HasEmptyFile == \E p \in DOMAIN fs.tree : ~fs.tree[p].is_dir /\ fs.tree[p].data = <<>>

EntryAfterNestedDir ==
    \E p, q \in DOMAIN fs.tree :
       /\ Len(p) > 1 /\ Len(q) = Len(p) /\ Parent(q) = Parent(p) /\ p # q
       /\ fs.tree[p].is_dir
       /\ IF fs.order = "asc" THEN p[Len(p)] < q[Len(q)] ELSE p[Len(p)] > q[Len(q)]

C2_RoundTripWithoutEmptyFilesAndNesting ==
    (~HasEmptyFile /\ ~EntryAfterNestedDir) => C2_DirectoryRoundTrip

\* an emitted record read by the layout of the stream: its kind, its path,
\* its size field
RecIsDir(r) == r[3][9] = 1

RecPath(r) == CString(SubSeq(r[3], IF RecIsDir(r) THEN 14 ELSE 18, Len(r[3])))

RecFileSize(r) == Read64(r[3], 9)

\* C13: in every stream archive_directory produces the first record is the
\* Dir record of the walked root, and the Dir record of the parent directory
\* of every other record was emitted before it, at a lower offset; so a
\* restore never fails on an entry whose parent is missing.
C13_PreOrder ==
    /\ ar.records # <<>> =>
          /\ RecIsDir(ar.records[1])
          /\ RecPath(ar.records[1]) = PathString(<<>>)
          /\ ar.records[1][1] = 0
          /\ \A k \in 2..Len(ar.records) :
                \E j \in 1..(k - 1) :
                   /\ RecIsDir(ar.records[j])
                   /\ RecPath(ar.records[j]) = Dirname(RecPath(ar.records[k]))
                   /\ ar.records[j][1] < ar.records[k][1]
    /\ rs.w.errno # ENOENT
    /\ pc = "restored" => res \notin {MKDIR_ERROR, FILE_WRITE_ERROR}

\* a restored tree of five records: root, S, S/f, S/T and a file beside S
C13_Witness ==
    /\ pc = "restored" /\ res = SUCCESS
    /\ Len(ar.records) = 5
    /\ rs.items = 5
    /\ \E k \in 3..5 : ~RecIsDir(ar.records[k]) /\ Len(RecPath(ar.records[k])) = 5

\* the sum of f over a finite set
RECURSIVE SumOver(_, _)
SumOver(S, f) ==
    IF S = {} THEN 0
    ELSE LET x == CHOOSE x \in S : TRUE IN f[x] + SumOver(S \ {x}, f)

\* the size of the record of entry p by the layout of the stream
RecordSize(p) ==
    8 + 1 + (IF fs.tree[p].is_dir THEN 4 ELSE 8) + Len(PathString(p)) + 1
      + Len(fs.tree[p].data)

\* the sizing pass of prepare_directory has succeeded
Sized == pc \in {"prepare_tmpfile", "prepare_serialize"} \/ (pc = "prepared" /\ res >= 0)

\* C14: on success the stream holds one record per directory (the root
\* included) and per regular file and *archive_size is that count, *data_size
\* is the sum of the record sizes, the value returned is the sum of the file
\* sizes, and a zero-byte file is one File record with file_size 0 and no
\* payload.
C14_CountsAndTotals ==
    fs.fail = <<"none">> =>
        /\ Sized =>
              /\ ar.dir_size = SumOver(DOMAIN fs.tree, [p \in DOMAIN fs.tree |->
                                                           Len(fs.tree[p].data)])
              /\ ar.data_len = SumOver(DOMAIN fs.tree, [p \in DOMAIN fs.tree |->
                                                           RecordSize(p)])
        /\ (pc = "prepared" /\ res >= 0) =>
              /\ ar.archive_size = Cardinality(DOMAIN fs.tree)
              /\ Len(ar.records) = Cardinality(DOMAIN fs.tree)
              /\ \A p \in DOMAIN fs.tree :
                    \E k \in 1..Len(ar.records) :
                       /\ RecPath(ar.records[k]) = PathString(p)
                       /\ RecIsDir(ar.records[k]) = fs.tree[p].is_dir
                       /\ ar.records[k][2] = RecordSize(p)
                       /\ ~fs.tree[p].is_dir =>
                             RecFileSize(ar.records[k]) = U64(Len(fs.tree[p].data))

\* what holds of the counts: they are right for the trees with no empty file
C14_CountsAndTotalsWithoutEmptyFiles == ~HasEmptyFile => C14_CountsAndTotals

\* the record the loop of restore_directory is about to read, and the path
\* extract_directory builds for it
ItemAt == deserialize_item(rs.temp_data, rs.offset, Len(rs.temp_data) - rs.offset)

FullPathAt == Norm(RestorePrefix \o CString(ItemAt.item.path[2]))

\* the next record is a Dir record that names a directory that exists
ExistingDirNext ==
    /\ pc = "restore_loop"
    /\ rs.offset < Len(rs.temp_data)
    /\ ~IsNeg64(ItemAt.ret) /\ ItemAt.ret # U64(0)
    /\ ItemAt.item.is_dir
    /\ IsDirectory(rs.w.out, FullPathAt)

Kept ==
    {p \in DOMAIN fs.tree :
        ~(Len(p) >= Len(fs.fail[2]) /\ Take(p, Len(fs.fail[2])) = fs.fail[2])}

EmittedPaths == {RecPath(ar.records[k]) : k \in 1..Len(ar.records)}

\* a walk of a tree that archives without any failure, with one failing entry
OneEntryFails == fs.fail # <<"none">> /\ ~HasEmptyFile /\ ~EntryAfterNestedDir

\* C16: an entry below the root that cannot be inspected, read or opened is
\* skipped, the walk goes on with the other entries and succeeds; a failure
\* on the walked root aborts the operation.
C16_WalkSkipsUnreadableEntries ==
    OneEntryFails =>
        IF fs.fail[2] = <<>>
        THEN pc \in {"prepare_directory", "prepared"} /\ (pc = "prepared" => res < 0)
        ELSE /\ pc # "fault"
             /\ (pc = "prepared" /\ ~ar.env_failed) =>
                   (res >= 0 /\ {PathString(p) : p \in Kept} \subseteq EmittedPaths)

\* what the walk does: only an entry whose stat fails is skipped; a file that
\* cannot be read or a subdirectory that cannot be opened ends the walk with
\* an error, or with a fault in the serializing pass
C16_OnlyStatFailureSkipped ==
    (OneEntryFails /\ pc = "prepared" /\ ~ar.env_failed) =>
        /\ res >= 0 <=> (fs.fail[1] = "stat" /\ fs.fail[2] # <<>>)
        /\ res >= 0 => EmittedPaths = {PathString(p) : p \in Kept}

(***************************************************************************)
(* construct_tree on every sorted array of leaves.                          *)
(***************************************************************************)
\* most leaves, and the largest frequency of a leaf
MaxLeaves == 5
MaxFreq == 4

\* the arrays sort_nodes hands to construct_tree: n leaves of distinct
\* symbols in ascending order of frequency, room for n - 1 branches after them
SortedLeafArrays(n) ==
    {[k \in 0..(2 * n - 2) |-> IF k < n THEN construct_leaf(f[k + 1], 65 + k) ELSE NoNode] :
        f \in {g \in [1..n -> 1..MaxFreq] : \A a \in 1..(n - 1) : g[a] <= g[a + 1]}}

InitTree ==
    /\ pc = "construct_tree"
    /\ leaf_count \in (0 - 1)..MaxLeaves
    /\ nodes \in SortedLeafArrays(leaf_count)
    /\ tree = TreeLocals0(leaf_count)
    /\ data = <<>>
    /\ root_node = 0 - 1
    /\ cache = <<>>
    /\ comp = CompIdle
    /\ compressed_file = NoFile
    /\ dec = DecIdle
    /\ raw = <<>>
    /\ res = 0
    /\ output_file = "absent"
    /\ image = NoImage
    /\ wr = NoStructure
    /\ rc = RcIdle
    /\ fs = FsIdle
    /\ ar = ArIdle
    /\ rs = RsIdle
    /\ cli = CliIdle
    /\ wc = WcIdle

NextTree ==
    \/ ConstructTreeStep
    \/ ConstructTreeReturn

SpecTree == InitTree /\ [][NextTree]_vars

(***************************************************************************)
(* restore_directory on arbitrary streams.                                  *)
(***************************************************************************)
\* longest path of a crafted record, NUL included
MaxTail == 2

\* the record lengths and file sizes a crafted record declares, next to the
\* true ones
DeclaredSizes == {U64(0), U64(1), U64(5), U64(9), U64(12), Neg64(1), Neg64(8)}
DeclaredFileSizes == {U64(0), U64(1), U64(3), Neg64(2)}

\* one record: a length, a flag, perms or a file size, then path and payload
\* bytes; Records has it with its true length, with each declared length,
\* and cut short
Bodies ==
    {<<1>> \o LEs(448, 4) \o t : t \in SeqsUpTo({97, 0}, MaxTail)}
      \cup {<<0>> \o LE64(f) \o t : f \in DeclaredFileSizes, t \in SeqsUpTo({97, 0}, MaxTail)}

Records ==
    UNION {{LE64(s) \o b : s \in DeclaredSizes \cup {U64(Len(b))}} : b \in Bodies}

Streams ==
    UNION {{Take(r, n) : n \in {8, 9, 10, Len(r)}} : r \in Records}
      \cup {<<1, 0, 0>>}

InitReader ==
    /\ pc = "restore_loop"
    /\ \E in \in Streams, force \in BOOLEAN :
          rs = [RsIdle EXCEPT !.temp_data = in, !.force = force,
                              !.w = World(NULL, 0, "empty")]
    /\ fs = FsIdle
    /\ ar = ArIdle
    /\ cli = CliIdle
    /\ wc = WcIdle
    /\ res = 0
    /\ image = NoImage
    /\ wr = NoStructure
    /\ rc = RcIdle
    /\ data = <<>>
    /\ nodes = <<>>
    /\ leaf_count = 0
    /\ tree = TreeIdle
    /\ root_node = 0 - 1
    /\ cache = <<>>
    /\ comp = CompIdle
    /\ compressed_file = NoFile
    /\ dec = DecIdle
    /\ raw = <<>>
    /\ output_file = "absent"

NextReader ==
    \/ RestoreItem
    \/ RestoreReturn

SpecReader == InitReader /\ [][NextReader]_vars

(***************************************************************************)
(* Properties of the codec (SpecCodec).                                    *)
(***************************************************************************)
\* the input of Scenario A, "AAAABB"
ScenarioA == <<65, 65, 65, 65, 66, 66>>

\* the bit-paths of all input symbols, concatenated in input order
RECURSIVE PathBits(_)
PathBits(i) ==
    IF i > Len(data) THEN <<>>
    ELSE find_leaf(data[i], nodes, root_node) \o PathBits(i + 1)

\* bit k (counted from 0, most significant bit of byte 0 first) of a byte sequence
StreamBit(bytes, k) == TestBit(bytes[(k \div 8) + 1], 7 - (k % 8))

\* C1 as stated: for every buffer B, the empty one included, building the tree from
\* B's frequencies, compressing B and decompressing the result with
\* original_size = |B| succeeds and reproduces exactly B.
C1_RoundTripEveryBuffer ==
    pc = "decoded" => (res = 0 /\ raw = data)

\* C1 as amended: for every non-empty buffer B the chain tree, compress, decompress
\* succeeds and reproduces exactly B, whatever order the sort gives to leaves of
\* equal frequency; for the empty buffer no tree is built and decompress returns
\* TREE_ERROR.
C1_RoundTrip ==
    pc = "decoded" =>
        IF Len(data) > 0 THEN res = 0 /\ raw = data
        ELSE res = TREE_ERROR /\ raw = <<>>

\* a buffer of three distinct symbols, two of them of equal frequency and left by
\* the sort in descending byte order, has been decoded
C1_Witness ==
    /\ pc = "decoded"
    /\ leaf_count = 3
    /\ nodes[0].frequency = nodes[1].frequency
    /\ nodes[0].data > nodes[1].data
    /\ Len(data) > 8
    /\ raw = data

\* C5: a buffer of N >= 1 copies of one byte gives a tree of exactly one node, a
\* leaf that is the root, and compress reports data_size = N bits, all of them zero.
C5_SingleSymbol ==
    (/\ pc = "compressed"
     /\ Len(data) >= 1
     /\ \A i \in 1..Len(data) : data[i] = data[1])
    => /\ DOMAIN nodes = {0}
       /\ nodes[0].type = "LEAF"
       /\ nodes[0].data = data[1]
       /\ root_node = 0
       /\ compressed_file.data_size = Len(data)
       /\ \A k \in 0..(Len(data) - 1) :
             ~StreamBit(compressed_file.compressed_data, k)

\* nine copies of one byte have been compressed: the zero bits fill more than a byte
C5_Witness ==
    /\ pc = "compressed"
    /\ Len(data) = 9
    /\ \A i \in 1..Len(data) : data[i] = data[1]
    /\ compressed_file.data_size = 9

\* C6: over a tree with at least two leaves, data_size is the sum of the lengths of
\* the input symbols' bit-paths, bit k of the concatenated paths is stored at bit
\* 7 - (k mod 8) of output byte k div 8, and the unused low bits of the last byte
\* are 0; "AAAABB" gives data_size 6 and first byte 0xF0.
C6_MsbFirstPacking ==
    (pc = "compressed" /\ leaf_count >= 2) =>
        LET bits == PathBits(1)
            cd == compressed_file.compressed_data
        IN  /\ compressed_file.data_size = Len(bits)
            /\ \A k \in 0..(Len(bits) - 1) : StreamBit(cd, k) <=> (bits[k + 1] = "1")
            /\ \A k \in Len(bits)..(8 * ((Len(bits) + 7) \div 8) - 1) : ~StreamBit(cd, k)
            /\ data = ScenarioA => (compressed_file.data_size = 6 /\ cd[1] = 240)

\* an input over three leaves has been packed into more than one byte, the last
\* of them partly used
C6_Witness ==
    /\ pc = "compressed"
    /\ leaf_count = 3
    /\ compressed_file.data_size > 8
    /\ compressed_file.data_size % 8 # 0
    /\ \E k \in 8..(compressed_file.data_size - 1) :
          StreamBit(compressed_file.compressed_data, k)

\* C7 as stated: for "AAAABB" the two-leaf tree has A, the symbol of higher
\* frequency, as the left child with bit-path "0", and B as the right child with
\* bit-path "1".
C7_ScenarioA_AIsLeft ==
    (pc = "compress" /\ data = ScenarioA) =>
        /\ nodes[nodes[root_node].left].data = 65
        /\ nodes[nodes[root_node].right].data = 66
        /\ find_leaf(65, nodes, root_node) = <<"0">>
        /\ find_leaf(66, nodes, root_node) = <<"1">>

\* C7 as amended: for "AAAABB" the two-leaf tree has B, the symbol of lower
\* frequency, as the left child with bit-path "0", and A as the right child with
\* bit-path "1" (which is what makes the first packed byte 0xF0).
C7_ScenarioA_BIsLeft ==
    (pc = "compress" /\ data = ScenarioA) =>
        /\ leaf_count = 2
        /\ root_node = 2
        /\ nodes[root_node].type = "BRANCH"
        /\ nodes[nodes[root_node].left] = construct_leaf(2, 66)
        /\ nodes[nodes[root_node].right] = construct_leaf(4, 65)
        /\ find_leaf(66, nodes, root_node) = <<"0">>
        /\ find_leaf(65, nodes, root_node) = <<"1">>

\* the tree of "AAAABB" has been built
C7_Witness ==
    /\ pc = "compress"
    /\ data = ScenarioA
    /\ root_node = 2

\* C8: an empty input is reported as empty: read_raw yields EMPTY_FILE, compress
\* with data_len 0 returns 0 with data_size 0 and no data buffer, run_compression
\* with an all-zero histogram stops before building a tree; and no step taken on
\* an empty input creates or writes the container file.
C8_EmptyInputStep ==
    Len(data) = 0 =>
        /\ output_file' = output_file
        /\ pc = "main" => (pc' = "exit" /\ res' = EMPTY_FILE)
        /\ pc = "run_compression" =>
              (pc' = "exit" /\ res' = SUCCESS /\ nodes' = <<>> /\ root_node' = 0 - 1)
        /\ pc = "compress" =>
              /\ res' = 0
              /\ compressed_file'.data_size = 0
              /\ compressed_file'.compressed_data = NULL

C8_EmptyInput == [][C8_EmptyInputStep]_vars

\* run_compression has returned for an empty input and the existing file is as it was
C8_Witness ==
    /\ Len(data) = 0
    /\ pc = "exit"
    /\ res = SUCCESS
    /\ leaf_count = 0
    /\ output_file = "old"

\* C17: within one compress call a cached path is never replaced or modified,
\* every later lookup of its symbol returns that same path (the one find_leaf
\* resolves), and neither lookups nor path resolution change a node of the tree.
C17_CacheIdempotent ==
    [][pc = "compress_loop" =>
          /\ nodes' = nodes
          /\ root_node' = root_node
          /\ \A b \in DOMAIN cache :
                /\ b \in DOMAIN cache'
                /\ cache'[b] = cache[b]
                /\ check_cache(b, cache') = check_cache(b, cache)
                /\ check_cache(b, cache) = find_leaf(b, nodes, root_node)]_vars

\* a symbol has been encoded from the cache, with two paths cached
C17_Witness ==
    /\ pc = "compress_loop"
    /\ comp.i >= 3
    /\ \E k \in 1..(comp.i - 1) : data[k] = data[comp.i]
    /\ Cardinality(DOMAIN cache) >= 2

(***************************************************************************)
(* Properties of decompress on arbitrary containers (SpecDecode).          *)
(***************************************************************************)
\* the root of the container's tree is a leaf
RootIsLeaf ==
    /\ RootIndex(compressed_file.tree_size) >= 0
    /\ compressed_file.huffman_tree[RootIndex(compressed_file.tree_size)].type = "LEAF"

\* C10 as stated: when the root of the container's tree is a leaf, decompress
\* emits that leaf's symbol exactly original_size times, for every recorded bit
\* length and every content of the packed bytes.
C10_LeafRootEmitsOriginalSize ==
    (pc = "decoded" /\ RootIsLeaf) =>
        /\ res = 0
        /\ dec.current_raw = compressed_file.original_size
        /\ \A k \in 1..compressed_file.original_size :
              raw[k] = compressed_file.huffman_tree[dec.root_index].data

\* what decompress does on a leaf root: it emits the symbol once per recorded bit
\* until original_size symbols are out, min(data_size, original_size) in all
C10_LeafRootEmitsPerBit ==
    (pc = "decoded" /\ RootIsLeaf) =>
        LET n == IF compressed_file.data_size < compressed_file.original_size
                 THEN compressed_file.data_size ELSE compressed_file.original_size
        IN  /\ res = 0
            /\ dec.current_raw = n
            /\ \A k \in 1..n : raw[k] = compressed_file.huffman_tree[dec.root_index].data
            /\ \A k \in (n + 1)..compressed_file.original_size : raw[k] = Indeterminate

\* the symbols decompress has written so far are the first current_raw bytes
\* of the output, and there are never more than original_size of them
WrittenUpToTarget ==
    /\ dec.current_raw <= compressed_file.original_size
    /\ {k \in 1..Len(raw) : raw[k] # Indeterminate} = 1..dec.current_raw

\* once original_size symbols are out the next step ends the call with 0,
\* whatever bits remain, and an emitted symbol puts the cursor back on the root
StopsAndResets ==
    /\ (pc = "decompress_loop" /\ dec.current_raw >= compressed_file.original_size)
          => (pc' = "decoded" /\ res' = 0 /\ dec' = dec /\ raw' = raw)
    /\ (pc = "decompress_loop" /\ dec'.current_raw > dec.current_raw)
          => (dec'.current_node = dec.root_index /\ dec'.current_raw = dec.current_raw + 1)

\* C11: decompress never writes more than original_size symbols, consumes no
\* bit once original_size symbols are out, takes no error from the bits that
\* remain, and resets the tree cursor to the root after every emitted symbol.
C11_DecodeStopsAtTarget == [](WrittenUpToTarget) /\ [][StopsAndResets]_vars

\* a decode through a branch root that reached the target with bits left over
C11_Witness ==
    /\ pc = "decoded" /\ res = 0 /\ ~RootIsLeaf
    /\ compressed_file.original_size > 1
    /\ dec.current_raw = compressed_file.original_size
    /\ dec.i < compressed_file.data_size

\* C12: whenever decompress returns 0, exactly original_size symbols have been
\* written; a bit stream that runs out first is reported as a failure.
C12_NoSilentPartialOutput ==
    (pc = "decoded" /\ res = 0) => dec.current_raw = compressed_file.original_size

\* what decompress does: it returns 0 whenever the tree is not empty, with
\* original_size symbols written or with every recorded bit consumed
C12_ReturnsZeroOnExhaustedStream ==
    pc = "decoded" =>
        \/ res = TREE_ERROR /\ RootIndex(compressed_file.tree_size) < 0
        \/ res = 0 /\ (dec.current_raw = compressed_file.original_size
                          \/ dec.i = compressed_file.data_size)

(***************************************************************************)
(* Properties of the container file (SpecContainer).                       *)
(***************************************************************************)
\* the first four bytes of the file are 'HUFF'
ValidMagic == Len(image) >= 4 /\ SubSeq(image, 1, 4) = magic

\* the length n declared by a field exceeds the rest bytes that follow the field
Exceeds(n, rest) == ~Small(n) \/ ToInt(n) > rest

\* In the file, read field after field as the layout defines it, a declared
\* length (name_len, tree_len or the ceil(bit_len / 8) of bit_len) exceeds the
\* bytes that remain after its field.
DeclaredLengthExceeds ==
    /\ Len(image) >= 21
    /\ LET name_len == Read64(image, 13)
       IN  \/ Exceeds(name_len, Len(image) - 21)
           \/ LET t == 21 + ToInt(name_len)
              IN  /\ Len(image) >= t + 8
                  /\ LET tree_len == Read64(image, t)
                     IN  \/ Exceeds(tree_len, Len(image) - (t + 8))
                         \/ LET b == t + 8 + ToInt(tree_len)
                            IN  /\ Len(image) >= b + 8
                                /\ Exceeds(CeilBytes(Read64(image, b)),
                                           Len(image) - (b + 8))

\* C3 as stated: for every buffer whose magic is valid and in which a declared
\* length exceeds the bytes remaining after its field, read_compressed returns a
\* malformed-input error (unless it runs out of memory) and reads no byte outside
\* the buffer, lengths that make offset + length wrap around in 64 bits included.
C3_InflatedLengthRejected ==
    (pc = "read_done" /\ image # NoImage /\ ValidMagic /\ DeclaredLengthExceeds
        /\ res # MALLOC_ERROR) =>
        /\ res \in {FILE_READ_ERROR, FILE_MAGIC_ERROR}
        /\ ~rc.oob

\* what holds of read_compressed: a declared length that exceeds the remaining
\* bytes is refused when it is a name_len, a bit_len, or a tree_len below 2^63
C3_InflatedLengthRejectedUnlessWrap ==
    (pc = "read_done" /\ image # NoImage /\ ValidMagic /\ DeclaredLengthExceeds
        /\ ~IsNeg64(rc.tree_size) /\ rc.build = "flat" /\ res # MALLOC_ERROR) =>
        /\ res \in {FILE_READ_ERROR, FILE_MAGIC_ERROR}
        /\ ~rc.oob

\* C4: for every buffer of at least 4 bytes whose first 4 bytes are not 'HUFF',
\* read_compressed returns FILE_MAGIC_ERROR having read nothing but those 4
\* bytes (not is_dir, original_size or a length field), and every pointer of
\* the Compressed_file is NULL.
C4_MagicCheckedFirst ==
    (pc \in {"rc_exit", "read_done"} /\ image # NoImage /\ Len(image) >= 4 /\ ~ValidMagic) =>
        /\ rc.ret = FILE_MAGIC_ERROR
        /\ pc = "read_done" => res = FILE_MAGIC_ERROR
        /\ rc.read = 0..3
        /\ ~rc.oob
        /\ rc.is_dir = RcIdle.is_dir
        /\ rc.original_size = RcIdle.original_size
        /\ rc.name_len = RcIdle.name_len
        /\ rc.tree_size = RcIdle.tree_size
        /\ rc.data_size = RcIdle.data_size
        /\ rc.original_file = NULL
        /\ rc.huffman_tree = NULL
        /\ rc.compressed_data = NULL
        /\ rc.file_name = NULL

\* read_compressed has returned on a file that is a well-formed container but
\* for the last byte of its magic
C4_Witness ==
    /\ pc = "read_done"
    /\ image # NoImage
    /\ Len(image) > 21
    /\ SubSeq(image, 1, 4) = <<72, 85, 70, 71>>
    /\ res = FILE_MAGIC_ERROR

\* the file is the layout of the structure wr, field after field
WrittenLayout ==
    /\ Len(image) = 4 + 1 + 8 + 8 + Len(wr.original_file) + 8 + wr.tree_size + 8
                      + ((wr.data_size + 7) \div 8)
    /\ image = magic \o <<IF wr.is_dir THEN 1 ELSE 0>> \o LE64(U64(wr.original_size))
                 \o LE64(U64(Len(wr.original_file))) \o wr.original_file
                 \o LE64(U64(wr.tree_size)) \o wr.huffman_tree
                 \o LE64(U64(wr.data_size)) \o wr.compressed_data

\* the n bytes of the file a pointer of the structure read designates
Designated(p, n) == SubSeq(image, ToInt(p[2]) + 1, ToInt(p[2]) + n)

\* read_compressed succeeded and the structure it filled equals wr
ReadBack ==
    /\ res = Len(image)
    /\ rc.is_dir = wr.is_dir
    /\ rc.original_size = U64(wr.original_size)
    /\ rc.original_file = <<"heap", wr.original_file>>
    /\ rc.tree_size = U64(wr.tree_size)
    /\ rc.huffman_tree # NULL
    /\ Designated(rc.huffman_tree, wr.tree_size) = wr.huffman_tree
    /\ rc.data_size = U64(wr.data_size)
    /\ rc.compressed_data # NULL
    /\ Designated(rc.compressed_data, (wr.data_size + 7) \div 8) = wr.compressed_data

\* the file write_compressed wrote has the fixed layout and size, and
\* read_compressed, unless it ran out of memory, succeeds on it and yields the
\* fields written
RoundTripAndLayout ==
    /\ (pc \in {"read_compressed", "read_done"} /\ wr # NoStructure) => WrittenLayout
    /\ (pc = "read_done" /\ wr # NoStructure /\ res # MALLOC_ERROR) => ReadBack

\* 2^53, the largest bit_len up to which every integer is a double
TwoTo53 == <<0, 0, 0, 32>>

DeclinedLeavesFile ==
    wc.called /\ wc.existed /\ ~wc.overwrite /\ wc.answer = "n" =>
        /\ wc.ret = NO_OVERWRITE
        /\ ~wc.opened
        /\ output_file = "old"

ForceReplacesFile ==
    wc.called /\ wc.existed /\ wc.overwrite =>
        /\ ~wc.prompted
        /\ wc.fails = "none" => output_file = "container" /\ wc.ret > 0

\* C21, as stated: with the output present, force off and an answer other
\* than y, write_compressed returns NO_OVERWRITE before the file is opened, the
\* file is unchanged and run_compression returns ECANCELED; with force on no
\* prompt is issued and the file is replaced.
C21_OverwriteDeclined ==
    /\ DeclinedLeavesFile
    /\ wc.called /\ wc.existed /\ ~wc.overwrite /\ wc.answer = "n" => res = ECANCELED
    /\ ForceReplacesFile

\* what the code does: the same, with run_compression returning 0
C21_OverwriteDeclinedReturnsZero ==
    /\ DeclinedLeavesFile
    /\ wc.called /\ wc.existed /\ ~wc.overwrite /\ wc.answer = "n" => res = SUCCESS
    /\ ForceReplacesFile

C21_DeclinedReached ==
    wc.called /\ wc.existed /\ ~wc.overwrite /\ wc.answer = "n" /\ pc = "exit"

(***************************************************************************)
(* Properties of construct_tree (SpecTree).                                 *)
(***************************************************************************)
Returned == pc = "compress"

BranchSlots == leaf_count..(2 * leaf_count - 2)

\* C22: for n >= 1 sorted leaves construct_tree leaves 2n - 1 nodes, the
\* leaves at 0..n-1 and the branches at n..2n-2, the children of a branch
\* below the branch, the frequency of a branch the sum of its children's, and
\* returns the last node (the sole leaf for n = 1); for n <= 0 it returns no
\* tree.
C22_TreeShape ==
    Returned =>
        IF leaf_count <= 0 THEN root_node = 0 - 1
        ELSE /\ DOMAIN nodes = 0..(2 * leaf_count - 2)
             /\ \A k \in 0..(leaf_count - 1) : nodes[k].type = "LEAF"
             /\ \A k \in BranchSlots :
                    /\ nodes[k].type = "BRANCH"
                    /\ nodes[k].left \in 0..(k - 1)
                    /\ nodes[k].right \in 0..(k - 1)
                    /\ nodes[k].frequency =
                           nodes[nodes[k].left].frequency + nodes[nodes[k].right].frequency
             /\ root_node = 2 * leaf_count - 2
             /\ leaf_count = 1 => root_node = 0

\* a returned tree of four leaves or more with a branch as a left child
C22_Witness ==
    /\ Returned
    /\ leaf_count >= 4
    /\ \E k \in BranchSlots : nodes[k].left >= leaf_count

\* the nodes no branch has taken yet: the leaves from current_leaf on and the
\* branches from current_branch up to last_branch
Unconsumed ==
    (tree.current_leaf..(leaf_count - 1)) \cup (tree.current_branch..(tree.last_branch - 1))

MinimumAmong(k, S) == k \in S /\ \A j \in S : nodes[k].frequency <= nodes[j].frequency

\* a leaf is taken when a leaf is among the candidates of least frequency
LeafOnTie(k, S) ==
    (\E j \in S : j < leaf_count /\ nodes[j].frequency = nodes[k].frequency) => k < leaf_count

GreedyStep ==
    pc = "construct_tree" /\ tree'.i = tree.i + 1 =>
        /\ MinimumAmong(tree'.left, Unconsumed)
        /\ LeafOnTie(tree'.left, Unconsumed)
        /\ MinimumAmong(tree'.right, Unconsumed \ {tree'.left})
        /\ LeafOnTie(tree'.right, Unconsumed \ {tree'.left})

\* the length of the path from node r down to node k, -1 when k is not below r
RECURSIVE Depth(_, _, _)
Depth(nds, r, k) ==
    IF r = k THEN 0
    ELSE IF nds[r].type # "BRANCH" THEN 0 - 1
    ELSE LET l == Depth(nds, nds[r].left, k)
             rr == Depth(nds, nds[r].right, k)
         IN  IF l >= 0 THEN l + 1 ELSE IF rr >= 0 THEN rr + 1 ELSE 0 - 1

RECURSIVE SumTo(_, _)
SumTo(f, n) == IF n < 0 THEN 0 ELSE f[n] + SumTo(f, n - 1)

\* sum over the leaves of frequency times path length
EncodedLength ==
    SumTo([k \in 0..(leaf_count - 1) |-> nodes[k].frequency * Depth(nodes, root_node, k)],
          leaf_count - 1)

\* the reference construction: merge the two least weights of an ascending
\* list until one is left, adding up the merged weights
RECURSIVE InsertSorted(_, _)
InsertSorted(s, x) ==
    IF s = <<>> \/ x <= Head(s) THEN <<x>> \o s ELSE <<Head(s)>> \o InsertSorted(Tail(s), x)

RECURSIVE HuffmanCost(_)
HuffmanCost(s) ==
    IF Len(s) <= 1 THEN 0
    ELSE (s[1] + s[2]) + HuffmanCost(InsertSorted(Tail(Tail(s)), s[1] + s[2]))

\* C23: at every merge step construct_tree takes as left and then as right
\* child a node of least frequency among the leaves and branches not yet
\* taken, the leaf on a tie; the encoded length of the finished tree is that
\* of the reference Huffman construction.
C23_GreedySelection ==
    /\ [][GreedyStep]_vars
    /\ [](Returned /\ leaf_count >= 1 =>
             EncodedLength = HuffmanCost([k \in 1..leaf_count |-> nodes[k - 1].frequency]))

\* a finished tree in which a branch was taken before a leaf of greater frequency
C23_Witness ==
    /\ Returned
    /\ leaf_count >= 4
    /\ \E k \in BranchSlots :
          nodes[k].left >= leaf_count /\ nodes[k].right < leaf_count


\* the branches construct_tree has built so far
Constructed == leaf_count..(tree.last_branch - 1)

ParentsOf(j) == {k \in Constructed : nodes[k].left = j \/ nodes[k].right = j}

\* C28: the children of every branch are nodes that existed when it was
\* built, and differ; no node is a child twice; branch frequencies do not
\* decrease in creation order; in the finished tree every node but the root
\* is the child of exactly one branch, the root's frequency is the sum of the
\* leaf frequencies, and find_leaf finds every leaf's symbol.
C28_EachNodeConsumedOnce ==
    leaf_count >= 1 =>
        /\ \A k \in Constructed :
               /\ nodes[k].left \in 0..(k - 1)
               /\ nodes[k].right \in 0..(k - 1)
               /\ nodes[k].left # nodes[k].right
        /\ \A j \in 0..(tree.last_branch - 1) : Cardinality(ParentsOf(j)) <= 1
        /\ \A k1, k2 \in Constructed :
               k1 < k2 => nodes[k1].frequency <= nodes[k2].frequency
        /\ Returned =>
               /\ \A j \in 0..(2 * leaf_count - 2) :
                      Cardinality(ParentsOf(j)) = IF j = root_node THEN 0 ELSE 1
               /\ nodes[root_node].frequency =
                      SumTo([k \in 0..(leaf_count - 1) |-> nodes[k].frequency],
                            leaf_count - 1)
               /\ \A k \in 0..(leaf_count - 1) :
                      find_leaf(nodes[k].data, nodes, root_node) # NULL

\* a finished tree of four leaves or more whose root has two branches as children
C28_Witness ==
    /\ Returned
    /\ leaf_count >= 4
    /\ nodes[root_node].left >= leaf_count
    /\ nodes[root_node].right >= leaf_count

\* under run_compression every symbol of the input has exactly one leaf, and
\* find_leaf finds it in the finished tree
EveryInputSymbolHasOneLeaf ==
    pc \in {"compress", "compress_loop", "compressed"} /\ leaf_count >= 1 =>
        \A i \in 1..Len(data) :
            /\ Cardinality({k \in 0..(leaf_count - 1) : nodes[k].data = data[i]}) = 1
            /\ find_leaf(data[i], nodes, root_node) # NULL

(***************************************************************************)
(* Properties of the output buffer of compress.                             *)
(***************************************************************************)
InCompress == pc \in {"compress_loop", "compressed"}

C27_SingleSymbolReached ==
    pc = "compressed" /\ leaf_count = 1 /\ comp.total_bits = Len(data) /\ Len(data) > 8

RECURSIVE CeilLog2(_)
CeilLog2(n) == IF n <= 1 THEN 0 ELSE 1 + CeilLog2((n + 1) \div 2)

\* for every sorted array of leaves the encoded length is at most that of the
\* code of fixed length for as many symbols (8 bits for up to 256 symbols)
EncodedLengthWithinFixedCode ==
    Returned /\ leaf_count >= 1 =>
        EncodedLength <=
            CeilLog2(leaf_count) *
                SumTo([k \in 0..(leaf_count - 1) |-> nodes[k].frequency], leaf_count - 1)

(***************************************************************************)
(* Properties of sort_nodes under run_compression (SpecCodec).              *)
(***************************************************************************)
Sorted == pc = "construct_tree" /\ tree.i = 0 /\ leaf_count >= 1

\* C24, as stated: after sort_nodes the leaves ascend in frequency and leaves
\* of equal frequency keep the order run_compression created them in,
\* ascending byte value.
C24_StableLeafOrder ==
    Sorted =>
        \A a, b \in 0..(leaf_count - 1) :
            a < b => \/ nodes[a].frequency < nodes[b].frequency
                     \/ /\ nodes[a].frequency = nodes[b].frequency
                        /\ nodes[a].data < nodes[b].data

\* what sort_nodes gives: the leaves of the input, each once, ascending in
\* frequency
C24_AscendingFrequency ==
    Sorted =>
        /\ \A a, b \in 0..(leaf_count - 1) :
               a < b => nodes[a].frequency <= nodes[b].frequency /\ nodes[a].data # nodes[b].data
        /\ \A a \in 0..(leaf_count - 1) :
               nodes[a] = construct_leaf(count_frequencies(data)[nodes[a].data], nodes[a].data)

\* two symbols of one frequency left in descending byte value
C24_TieReordered ==
    /\ Sorted
    /\ \E a, b \in 0..(leaf_count - 1) :
          a < b /\ nodes[a].frequency = nodes[b].frequency /\ nodes[a].data > nodes[b].data

(***************************************************************************)
(* Properties of chmod under restore_directory (SpecArchive).               *)
(***************************************************************************)
\* C29, as stated: with no_preserve_perms on, chmod is applied only to a
\* directory that existed when its record was processed; a directory this
\* restore has created by a successful mkdir is never chmod-ed.
C29_ChmodOnlyPreExisting ==
    rs.w.chmodded \cap rs.w.made = {}

\* what the code does: no chmod without no_preserve_perms, and a created
\* directory is chmod-ed only with errno left at EEXIST by an earlier mkdir
C29_ChmodFollowsErrno ==
    /\ rs.w.chmodded # {} => rs.no_preserve_perms /\ rs.w.errno = EEXIST
    /\ ~rs.no_preserve_perms => rs.w.chmodded = {}

\* a directory made by this restore and chmod-ed to bits the umask had cleared
C29_CreatedAndChmodded ==
    \E p \in rs.w.chmodded \cap rs.w.made :
        rs.w.umask # 0 /\ rs.w.out[p].perms # AndNot(rs.w.out[p].perms, rs.w.umask, 8)

(***************************************************************************)
(* Properties of deserialize_item on arbitrary streams (SpecReader).        *)
(***************************************************************************)
Remaining == Len(rs.temp_data) - rs.offset

\* the fields of the record at the offset, as its bytes declare them
DeclaredSize == Read64(Fetch(rs.temp_data, rs.offset, 8), 0)
DeclaredIsDir == Fetch(rs.temp_data, rs.offset + 8, 1)[1] # 0
DeclaredFileSize == Read64(Fetch(rs.temp_data, rs.offset + 9, 8), 0)

\* the declared length reaches beyond the bytes that remain
LengthExceedsRemaining ==
    ~IsNeg64(DeclaredSize) /\ Lt64(U64(Remaining), Add64(U64(8), DeclaredSize))

\* a record the reader has to reject: its length exceeds what remains, is
\* negative or too small for the fixed fields, or its file_size exceeds the
\* space left in the record
BadRecord ==
    \/ LengthExceedsRemaining
    \/ IsNeg64(DeclaredSize)
    \/ Lt64(DeclaredSize, U64(IF DeclaredIsDir THEN 5 ELSE 9))
    \/ ~DeclaredIsDir /\ Lt64(Sub64(DeclaredSize, 9), DeclaredFileSize)

AtRecord == pc = "restore_loop" /\ Remaining >= 8

\* C25, as stated: deserialize_item never reads beyond the bytes it was
\* given, and rejects with an error, copying nothing, a record whose length
\* exceeds the remaining bytes, is negative or too small for its fixed fields,
\* or whose file_size exceeds the space left in the record.
C25_ReaderStaysInBounds ==
    /\ [](~rs.past /\ pc # "fault")
    /\ [][AtRecord /\ BadRecord =>
             pc' = "restored" /\ res' < 0 /\ rs'.w = rs.w]_vars

\* what the code checks: a non-negative length that exceeds the remaining
\* bytes is rejected with FILE_READ_ERROR before any other byte is read, and
\* a record that is not bad is read inside the stream
C25_LengthAloneChecked ==
    /\ [][AtRecord /\ LengthExceedsRemaining =>
             pc' = "restored" /\ res' = FILE_READ_ERROR /\ ~rs'.past]_vars
    /\ [][AtRecord /\ ~BadRecord => ~rs'.past]_vars

\* a record of declared length 0 at the end of the stream: the flag was read
\* past the stream
C25_ReadPastStream ==
    /\ rs.past
    /\ rs.temp_data = LE64(U64(0))

C25_GoodRecordRead ==
    pc = "restore_loop" /\ rs.items = 1 /\ ~rs.past /\ rs.offset = Len(rs.temp_data)

(***************************************************************************)
(* Properties of the serializing pass of archive_directory (SpecArchive).   *)
(***************************************************************************)
Serialized == ar.records # <<>>

\* the total size of the records emitted before the k-th
EmittedBefore(k) == SumTo([j \in 0..(k - 2) |-> ar.records[j + 1][2]], k - 2)

\* C26, as stated: in the serializing pass every record is written at the
\* offset equal to the total size of the records emitted before it, for every
\* directory shape and listing order; the pass writes exactly the data_len
\* bytes of the sizing pass, with no gap and nothing at or beyond data_len.
C26_ContiguousStream ==
    Serialized =>
        /\ \A k \in 1..Len(ar.records) : ar.records[k][1] = EmittedBefore(k)
        /\ EmittedBefore(Len(ar.records) + 1) = ar.data_len
        /\ ~ar.overflow

\* what the code does: the same for the trees in which no directory below
\* the root holds a subdirectory listed before another of its entries
C26_ContiguousWithoutNesting ==
    ~HasEmptyFile /\ ~EntryAfterNestedDir /\ fs.fail = <<"none">> => C26_ContiguousStream

\* a record written beyond the end of the mapping
C26_WrittenBeyond ==
    /\ Serialized
    /\ ~HasEmptyFile
    /\ \E k \in 1..Len(ar.records) : ar.records[k][1] >= ar.data_len

C26_ContiguousReached ==
    /\ Serialized
    /\ ~EntryAfterNestedDir
    /\ Len(ar.records) >= 4
    /\ \E p \in DOMAIN fs.tree : Len(p) = 2

(***************************************************************************)
(* Properties of the working directory under prepare_directory.             *)
(***************************************************************************)
\* C30: prepare_directory is in the input's parent only while archiving; on
\* every return, the chdir back having succeeded, the current directory is
\* the one of the entry; with no separator in the input path it never
\* changes.
C30_WorkingDirectoryRestored ==
    /\ pc = "prepared" /\ ~ar.back_failed => ar.cwd = "start"
    /\ ~ar.sep => ar.cwd = "start"
    /\ ar.cwd = "parent" =>
          \/ pc \in {"prepare_tmpfile", "prepare_serialize", "fault"}
          \/ ar.back_failed

\* prepare_directory has returned a failure of the mapping or of the sync
\* from a path with a separator, and the directory is that of the entry
C30_Witness ==
    /\ pc = "prepared"
    /\ ar.sep
    /\ res = FILE_WRITE_ERROR
    /\ ~ar.back_failed
    /\ ar.cwd = "start"

C30_SuccessReached ==
    pc = "prepared" /\ ar.sep /\ res >= 0 /\ ar.cwd = "start" /\ Len(ar.records) >= 2

(***************************************************************************)
(* Properties of the command line (SpecMain).                               *)
(***************************************************************************)
\* the role of each argument: the argument after an -o that is an option is
\* its value, the other ones are options or positional inputs
RECURSIVE IsValue(_, _)
IsValue(argv, k) == k > 1 /\ argv[k - 1] = "-o" /\ ~IsValue(argv, k - 1)

OptionAt(argv, k) == ~IsValue(argv, k) /\ argv[k] \in Options

PositionalAt(argv, k) == ~IsValue(argv, k) /\ argv[k] \in Paths

HasOption(argv, o) == \E k \in DOMAIN argv : OptionAt(argv, k) /\ argv[k] = o

Positionals(argv) == {k \in DOMAIN argv : PositionalAt(argv, k)}

\* the input path: the first positional argument
InputOf(argv) == argv[CHOOSE k \in Positionals(argv) : \A j \in Positionals(argv) : k <= j]

\* the argument at k is an unknown option or a second positional input
Offends(argv, k) ==
    \/ OptionAt(argv, k) /\ argv[k] = "-z"
    \/ PositionalAt(argv, k) /\ \E j \in Positionals(argv) : j < k

\* the conditions the arguments are rejected for
NoInput(argv) == Positionals(argv) = {}

MissingOutputValue(argv) == Len(argv) > 0 /\ OptionAt(argv, Len(argv)) /\ argv[Len(argv)] = "-o"

Rejected(argv) ==
    \/ NoInput(argv)
    \/ MissingOutputValue(argv)
    \/ Cardinality(Positionals(argv)) > 1
    \/ HasOption(argv, "-z")
    \/ /\ HasOption(argv, "-c") /\ HasOption(argv, "-x")
       /\ ~NoInput(argv) /\ KindOf(InputOf(argv)) # "none"

NoMode(argv) == ~HasOption(argv, "-c") /\ ~HasOption(argv, "-x")

\* -h is met before any argument the loop rejects
HelpFirst(argv) ==
    \E k \in DOMAIN argv :
        /\ OptionAt(argv, k) /\ argv[k] = "-h"
        /\ \A j \in 1..(k - 1) : ~Offends(argv, j)

\* C18, as stated: parse_arguments returns EINVAL when no positional input is
\* given, when -o is the last argument, when two positional inputs are given,
\* when an unknown option is given, and when -c and -x are both given for an
\* existing input; it returns SUCCESS only when none of these holds; main
\* returns EINVAL when neither -c nor -x is given.
C18_ArgumentValidation ==
    /\ pc = "parsed" =>
         /\ Rejected(cli.argv) => cli.parse_result = EINVAL
         /\ cli.parse_result = SUCCESS => ~Rejected(cli.argv)
    /\ pc = "exit" /\ NoMode(cli.argv) => res = EINVAL

\* C18, amended: the same, unless -h is met first (parse_arguments returns
\* HELP_REQUESTED and main 0); main returns EINVAL for no mode when
\* parse_arguments returned SUCCESS and the input passed the directory check,
\* and EISDIR when the input is a directory given without -r.
C18_ArgumentValidationUnlessHelp ==
    /\ pc = "parsed" =>
         cli.parse_result =
             IF HelpFirst(cli.argv) THEN HELP_REQUESTED
             ELSE IF Rejected(cli.argv) THEN EINVAL
             ELSE IF KindOf(InputOf(cli.argv)) = "none" THEN FILE_READ_ERROR
             ELSE SUCCESS
    /\ pc = "exit" /\ NoMode(cli.argv) /\ ~cli.env_failed =>
         res = IF HelpFirst(cli.argv) THEN SUCCESS
               ELSE IF Rejected(cli.argv) THEN EINVAL
               ELSE IF KindOf(InputOf(cli.argv)) = "none" THEN ENOENT
               ELSE IF KindOf(InputOf(cli.argv)) = "dir" /\ ~HasOption(cli.argv, "-r")
               THEN EISDIR
               ELSE EINVAL

\* both modes were given for an existing input and rejected after the loop
C18_Witness ==
    /\ pc = "parsed"
    /\ cli.parse_result = EINVAL
    /\ cli.args.compress_mode /\ cli.args.extract_mode
    /\ cli.i > Len(cli.argv)
    /\ cli.args.input_file = <<"argv", "in">>

C20_ExitCodes_Set(code) == code \in {0, EINVAL, ENOENT, EISDIR, ENOMEM, EIO, ECANCELED}

\* C20, as stated: every value main returns is 0 or one of EINVAL, ENOENT,
\* EISDIR, ENOMEM, EIO, ECANCELED.
C20_ExitCodes ==
    pc = "exit" => C20_ExitCodes_Set(res)

\* the values main returns: those, EBADF, and the internal negative codes
C20_ExitCodesOfTheCode ==
    pc = "exit" =>
        res \in {0, EINVAL, ENOENT, EISDIR, ENOMEM, EIO, ECANCELED, EBADF, 0 - 1,
                 EMPTY_FILE, FILE_READ_ERROR, FILE_WRITE_ERROR, MALLOC_ERROR, TREE_ERROR,
                 MKDIR_ERROR}

\* czip -c on an empty regular file returns EMPTY_FILE when stat succeeds
C20_EmptyInputExit ==
    pc = "exit" /\ cli.argv = <<"-c", "empty">> /\ ~cli.env_failed => res = EMPTY_FILE

C20_EmptyInputReached ==
    pc = "exit" /\ cli.argv = <<"-c", "empty">> /\ ~cli.env_failed

====
